---------------------------- MODULE Spec2Model ----------------------------
(***************************************************************************)
(* Model of the CLIP byte-level BPE tokenizer kernel:                      *)
(*   - bpe_utils (src/unnamed/part_010): IsUnicodeSpace, IsEmptyUString,   *)
(*     WhiteSpaceClean, SpecialTokenMap, VocabData (Load, bpe, lookups),   *)
(*     TokenWithRegularExp (the pre-tokenizer);                            *)
(*   - src/operators/tokenizer/clip_tokenizer.cc: KernelClipBpeTokenizer   *)
(*     (constructor, Tokenize, Compute).                                   *)
(*                                                                         *)
(* A ustring is a sequence of Unicode code points, a std::string is a      *)
(* sequence of bytes (0..255).  Lists, vectors and tensors are sequences;  *)
(* iterators are 1-based positions, end() being Len + 1.                   *)
(***************************************************************************)
EXTENDS Integers, Sequences, FiniteSets, TLC

(***************************************************************************)
(* Bounds of the model.                                                    *)
(***************************************************************************)
\* longest input of the Tokenize action, in pieces (see Pieces)
MaxPieces == 3
\* longest element of a Compute batch, in pieces (see BatchPieces)
MaxBatchPieces == 2
\* largest fixed padding_length attribute tried (besides -1)
MaxPadding == 3
\* longest (id, length) list handed to bpe on its own
MaxVals == 4
\* longest input of SplitBySpecialTokens on its own, in code points
MaxSplitLen == 4
\* longest merges text handed to Load on its own, in lines
MaxMergeLines == 2
\* longest text slice handed to the pre-tokenizer on its own, in code points
MaxSliceLen == 4

(***************************************************************************)
(* Sequence helpers.                                                       *)
(***************************************************************************)
Min(a, b) == IF a < b THEN a ELSE b
Max(a, b) == IF a < b THEN b ELSE a

\* s without its first n elements (substr(n) with a 0-based n)
Drop(s, n) == SubSeq(s, n + 1, Len(s))
\* the first n elements of s
Take(s, n) == SubSeq(s, 1, Min(n, Len(s)))

\* the sequences over S of length 0..n
RECURSIVE SeqsUpTo(_, _)
SeqsUpTo(S, n) ==
  IF n = 0 THEN {<<>>}
  ELSE LET shorter == SeqsUpTo(S, n - 1)
       IN shorter \cup {Append(s, x) : s \in {t \in shorter : Len(t) = n - 1}, x \in S}

RECURSIVE Flatten(_)
Flatten(ss) == IF ss = <<>> THEN <<>> ELSE Head(ss) \o Flatten(Tail(ss))

\* whether pat occurs in s at 1-based position p
MatchesAt(s, p, pat) ==
  /\ p + Len(pat) - 1 <= Len(s)
  /\ \A k \in 1..Len(pat) : s[p + k - 1] = pat[k]

\* std::search / basic_string::find: the first position >= p where pat occurs
\* in s, or Len(s) + 1 (end, npos) when there is none
RECURSIVE Search(_, _, _)
Search(s, p, pat) ==
  IF p > Len(s) THEN Len(s) + 1
  ELSE IF MatchesAt(s, p, pat) THEN p
  ELSE Search(s, p + 1, pat)

(***************************************************************************)
(* Characters.  The code points the model's inputs are written in, and the *)
(* library functions the kernel calls on them.                             *)
(***************************************************************************)
\* "</w>", the end-of-word marker
EndOfWord == <<60, 47, 119, 62>>
\* "<|startoftext|>"
StartOfText == <<60, 124, 115, 116, 97, 114, 116, 111, 102, 116, 101, 120, 116, 124, 62>>
\* "<|endoftext|>"
EndOfText == <<60, 124, 101, 110, 100, 111, 102, 116, 101, 120, 116, 124, 62>>
\* "<|ENDOFTEXT|>", the same token typed in capitals
EndOfTextUpper == <<60, 124, 69, 78, 68, 79, 70, 84, 69, 88, 84, 124, 62>>

\* ustring::EncodeUTF8Char, for code points below 0x10000
EncodeUTF8Char(cp) ==
  IF cp < 128 THEN <<cp>>
  ELSE IF cp < 2048 THEN <<192 + (cp \div 64), 128 + (cp % 64)>>
  ELSE <<224 + (cp \div 4096), 128 + ((cp \div 64) % 64), 128 + (cp % 64)>>

\* std::string(ustring): the UTF-8 bytes of a code point sequence
RECURSIVE ToUTF8(_)
ToUTF8(us) == IF us = <<>> THEN <<>> ELSE EncodeUTF8Char(Head(us)) \o ToUTF8(Tail(us))

\* ustring(std::string): the code points of a (valid) UTF-8 byte sequence
RECURSIVE FromUTF8(_)
FromUTF8(bs) ==
  IF bs = <<>> THEN <<>>
  ELSE IF bs[1] < 128 THEN <<bs[1]>> \o FromUTF8(Drop(bs, 1))
  ELSE IF bs[1] < 224
    THEN <<(bs[1] - 192) * 64 + (bs[2] - 128)>> \o FromUTF8(Drop(bs, 2))
  ELSE <<(bs[1] - 224) * 4096 + (bs[2] - 128) * 64 + (bs[3] - 128)>> \o FromUTF8(Drop(bs, 3))

\* ToLower on the Basic Latin and Latin-1 blocks
ToLower(c) ==
  IF (65 <= c /\ c <= 90) \/ (192 <= c /\ c <= 222 /\ c # 215) THEN c + 32 ELSE c

\* ufal::unilib::unicode::category restricted to the four classes the
\* pre-tokenizer tests, on the Basic Latin and Latin-1 blocks
category(c) ==
  IF \/ (65 <= c /\ c <= 90) \/ (97 <= c /\ c <= 122)
     \/ c \in {170, 181, 186}
     \/ (192 <= c /\ c <= 255 /\ c \notin {215, 247})
    THEN "L"
  ELSE IF (48 <= c /\ c <= 57) \/ c \in {178, 179, 185, 188, 189, 190} THEN "N"
  ELSE IF c \in {32, 160} THEN "Z"
  ELSE "Other"

IsUnicodeSpace(ch) ==
  ch \in {9, 10, 11, 12, 13, 28, 29, 30, 31, 32, 133, 160, 5760,
          8192, 8193, 8194, 8195, 8196, 8197, 8198, 8199, 8200, 8201, 8202,
          8232, 8233, 8239, 8287, 12288}

(***************************************************************************)
(* Whitespace normalisation.                                               *)
(***************************************************************************)
IsEmptyUString(str) ==
  IF str = <<32>> THEN FALSE
  ELSE \A i \in 1..Len(str) : IsUnicodeSpace(str[i])

BothSpaces(lhs, rhs) == (lhs = rhs) /\ IsUnicodeSpace(lhs)

\* every occurrence of search found left to right from pos (1-based) replaced
RECURSIVE ReplaceFrom(_, _, _, _)
ReplaceFrom(str, pos, search, replace) ==
  LET found == Search(str, pos, search)
  IN IF found > Len(str) THEN str
     ELSE ReplaceFrom(SubSeq(str, 1, found - 1) \o replace \o Drop(str, found - 1 + Len(search)),
                      found + Len(replace), search, replace)

ReplaceString(str, search, replace) == ReplaceFrom(str, 1, search, replace)

\* std::unique(begin, end, BothSpaces) followed by erase: an element is dropped
\* when it and the last element kept are the same whitespace code point
RECURSIVE UniqueFrom(_, _)
UniqueFrom(kept, rest) ==
  IF rest = <<>> THEN kept
  ELSE IF kept # <<>> /\ BothSpaces(kept[Len(kept)], Head(rest))
    THEN UniqueFrom(kept, Tail(rest))
  ELSE UniqueFrom(Append(kept, Head(rest)), Tail(rest))

WhiteSpaceClean(str) == UniqueFrom(<<>>, ReplaceString(str, <<10>>, <<32>>))

(***************************************************************************)
(* SpecialTokenMap.  token_list_ is a sequence of [str, id] records in     *)
(* registration order, token_map_ a function from strings to ids.          *)
(***************************************************************************)
\* the function f with key k set to v (operator[] assignment of a map)
MapPut(f, k, v) == [x \in DOMAIN f \cup {k} |-> IF x = k THEN v ELSE f[x]]

\* an Add without the duplicate test: the map entry is overwritten and the
\* string is entered in the list once more
SpecialTokenMapAddAgain(token_map, token_list, p_str, p_id) ==
  IF p_str = <<>>
    THEN [ok |-> FALSE, token_map |-> MapPut(token_map, p_str, p_id), token_list |-> token_list]
  ELSE [ok |-> TRUE, token_map |-> MapPut(token_map, p_str, p_id),
        token_list |-> Append(token_list, [str |-> p_str, id |-> p_id])]

\* SpecialTokenMap::Add on the pair (token_map, token_list): the new pair, and
\* whether the call returned (ok) or threw InvalidArgument.  An empty string is
\* entered in the map before SpecialTokenInfo's constructor throws.
SpecialTokenMapAdd(token_map, token_list, p_str, p_id) ==
  IF p_str \in DOMAIN token_map
    THEN [ok |-> token_map[p_str] = p_id, token_map |-> token_map, token_list |-> token_list]
  ELSE IF p_str = <<>>
    THEN [ok |-> FALSE, token_map |-> MapPut(token_map, p_str, p_id), token_list |-> token_list]
  ELSE [ok |-> TRUE, token_map |-> MapPut(token_map, p_str, p_id),
        token_list |-> Append(token_list, [str |-> p_str, id |-> p_id])]

\* the same loop without the text after the last occurrence
RECURSIVE SplitSegmentNoTail(_, _, _, _, _)
SplitSegmentNoTail(str, it, search_pos, st, out) ==
  IF it = Len(str) + 1 THEN out
  ELSE LET search_it == Search(str, it, st.str)
       IN IF search_it = Len(str) + 1 THEN out
          ELSE LET prefixLen == search_it - it
                   out1 == IF prefixLen # 0
                             THEN Append(out, <<SubSeq(str, search_pos + 1, search_pos + prefixLen), -1>>)
                             ELSE out
                   pos1 == IF prefixLen # 0 THEN search_pos + prefixLen ELSE search_pos
                   out2 == Append(out1, <<SubSeq(str, pos1 + 1, Min(pos1 + Len(st.str), Len(str))), st.id>>)
               IN SplitSegmentNoTail(str, search_it + Len(st.str), pos1 + Len(st.str), st, out2)

\* the while loop of SplitBySpecialTokens on one untagged segment str: it is the
\* iterator (1-based), search_pos the 0-based offset kept beside it
RECURSIVE SplitSegment(_, _, _, _, _)
SplitSegment(str, it, search_pos, st, out) ==
  IF it = Len(str) + 1 THEN out
  ELSE LET search_it == Search(str, it, st.str)
       IN IF search_it = Len(str) + 1
            THEN Append(out, <<Drop(str, search_pos), -1>>)
          ELSE LET prefixLen == search_it - it
                   out1 == IF prefixLen # 0
                             THEN Append(out, <<SubSeq(str, search_pos + 1, search_pos + prefixLen), -1>>)
                             ELSE out
                   pos1 == IF prefixLen # 0 THEN search_pos + prefixLen ELSE search_pos
                   out2 == Append(out1, <<SubSeq(str, pos1 + 1, Min(pos1 + Len(st.str), Len(str))), st.id>>)
               IN SplitSegment(str, search_it + Len(st.str), pos1 + Len(st.str), st, out2)

\* a pass that splits the first segment only and keeps the others as they are
SplitPassHeadOnly(res, st, new_split_res) ==
  IF res = <<>> THEN new_split_res
  ELSE IF Head(res)[2] # -1 THEN new_split_res \o res
  ELSE SplitSegment(Head(res)[1], 1, 0, st, new_split_res) \o Tail(res)

\* one pass of the outer loop: every segment of res split by special token st
RECURSIVE SplitPass(_, _, _)
SplitPass(res, st, new_split_res) ==
  IF res = <<>> THEN new_split_res
  ELSE LET str == Head(res)
       IN IF str[2] # -1
            THEN SplitPass(Tail(res), st, Append(new_split_res, str))
          ELSE SplitPass(Tail(res), st, SplitSegment(str[1], 1, 0, st, new_split_res))

\* the outer loop run from the last registered token to the first
RECURSIVE SplitByTokensLastFirst(_, _)
SplitByTokensLastFirst(token_list, res) ==
  IF token_list = <<>> THEN res
  ELSE SplitByTokensLastFirst(SubSeq(token_list, 1, Len(token_list) - 1),
                              SplitPass(res, token_list[Len(token_list)], <<>>))

RECURSIVE SplitByTokens(_, _)
SplitByTokens(token_list, res) ==
  IF token_list = <<>> THEN res
  ELSE SplitByTokens(Tail(token_list), SplitPass(res, Head(token_list), <<>>))

\* SpecialTokenMap::SplitBySpecialTokens: a sequence of <<substring, tag>>
SpecialTokenMapSplit(token_list, input) == SplitByTokens(token_list, <<<<input, -1>>>>)

(***************************************************************************)
(* VocabData::Load.  A vocabulary is a function from token strings (byte   *)
(* sequences) to ids, as parsed from the vocabulary JSON.                  *)
(***************************************************************************)
\* the code point whose UTF-8 string byte_encoder_[i] is looked up under: the
\* three printable ranges keep their value, the other 68 bytes take 256, 257,
\* ... in the order of the three loops that follow (0..32, 127..160, 173)
ByteCodePoint(i) ==
  IF (33 <= i /\ i <= 126) \/ (161 <= i /\ i <= 172) \/ (174 <= i /\ i <= 255) THEN i
  ELSE IF i < 33 THEN 256 + i
  ELSE IF i < 161 THEN 256 + 33 + (i - 127)
  ELSE 256 + 33 + 34

\* the lines std::getline reads from a stream holding text
RECURSIVE GetLines(_)
GetLines(text) ==
  IF text = <<>> THEN <<>>
  ELSE LET nl == Search(text, 1, <<10>>)
       IN IF nl > Len(text) THEN <<text>>
          ELSE <<SubSeq(text, 1, nl - 1)>> \o GetLines(Drop(text, nl))

\* std::regex_replace(line, std::regex("\r"), "")
RemoveCR(line) == LET NotCR(c) == c # 13 IN SelectSeq(line, NotCR)

\* the words operator>> reads from a stream holding text
RECURSIVE GetWords(_, _)
GetWords(text, word) ==
  IF text = <<>> THEN (IF word = <<>> THEN <<>> ELSE <<word>>)
  ELSE IF Head(text) \in {9, 10, 11, 12, 13, 32}
    THEN (IF word = <<>> THEN <<>> ELSE <<word>>) \o GetWords(Tail(text), <<>>)
  ELSE GetWords(Tail(text), Append(word, Head(text)))

\* a lookup that enters a word that is not in the vocabulary with the next id
GetVocabIndexOrNew(vocab_map, str) ==
  [ok |-> TRUE,
   id |-> IF str \in DOMAIN vocab_map THEN vocab_map[str] ELSE Cardinality(DOMAIN vocab_map)]

\* VocabData::GetVocabIndex: the id of str, or ok = FALSE when it throws
\* "Cannot find word in vocabulary"
GetVocabIndex(vocab_map, str) ==
  IF str \in DOMAIN vocab_map THEN [ok |-> TRUE, id |-> vocab_map[str]]
  ELSE [ok |-> FALSE, id |-> -1]

\* the merges loop of Load: st is [ok, bpe_map, index]; GetVocabIndex throws
\* for a word that is not in the vocabulary, and a line without a space throws
RECURSIVE LoadMerges(_, _, _)
LoadMerges(vocab_map, lines, st) ==
  IF lines = <<>> \/ ~st.ok THEN st
  ELSE LET line == RemoveCR(Head(lines))
       IN IF line = <<>> THEN LoadMerges(vocab_map, Tail(lines), st)
          ELSE IF line[1] = 35 /\ st.index = 0 THEN LoadMerges(vocab_map, Tail(lines), st)
          ELSE LET pos == Search(line, 1, <<32>>)
                   w1 == SubSeq(line, 1, pos - 1)
                   w2 == Drop(line, pos)
                   len0 == Len(w1) + Len(w2)
                   token_length ==
                     IF Search(w2, 1, EndOfWord) <= Len(w2) \/ Search(w1, 1, EndOfWord) <= Len(w1)
                       THEN len0 - 4 ELSE len0
                   iw1 == GetVocabIndex(vocab_map, w1)
                   iw2 == GetVocabIndex(vocab_map, w2)
                   iww == GetVocabIndex(vocab_map, w1 \o w2)
               IN IF pos > Len(line) \/ ~iw1.ok \/ ~iw2.ok \/ ~iww.ok
                    THEN [st EXCEPT !.ok = FALSE]
                  ELSE LoadMerges(vocab_map, Tail(lines),
                         [ok |-> TRUE,
                          bpe_map |-> MapPut(st.bpe_map, <<iw1.id, iw2.id>>,
                                             [id |-> iww.id, value |-> st.index,
                                              length |-> token_length]),
                          index |-> st.index + 1])

\* the special-token loop of Load: st is [ok, vocab_map, token_map, token_list]
RECURSIVE LoadSpecialTokens(_, _)
LoadSpecialTokens(words, st) ==
  IF words = <<>> \/ ~st.ok THEN st
  ELSE LET line == RemoveCR(Head(words))
           id == IF line \in DOMAIN st.vocab_map THEN st.vocab_map[line]
                 ELSE Cardinality(DOMAIN st.vocab_map)
           added == SpecialTokenMapAdd(st.token_map, st.token_list, FromUTF8(line), id)
       IN LoadSpecialTokens(Tail(words),
            [ok |-> added.ok,
             vocab_map |-> MapPut(st.vocab_map, line, id),
             token_map |-> added.token_map,
             token_list |-> added.token_list])

\* the tables Load leaves, or ok = FALSE when it throws.  unk_id_ starts at -1
\* (the constructor) and is assigned only when unk_token is already a key.
\* The loop that fills id2token_map_ at the end of Load is Id2TokenMap below.
Load(vocab_json, merges_text, unk_token, special_tokens) ==
  LET vocab1 == IF unk_token \in DOMAIN vocab_json THEN vocab_json
                ELSE MapPut(vocab_json, unk_token, Cardinality(DOMAIN vocab_json))
      unk_id == IF unk_token \in DOMAIN vocab_json THEN vocab_json[unk_token] ELSE -1
      bytes_ok == \A i \in 0..255 : EncodeUTF8Char(ByteCodePoint(i)) \in DOMAIN vocab1
      merges == LoadMerges(vocab1, GetLines(merges_text),
                           [ok |-> TRUE, bpe_map |-> <<>>, index |-> 0])
      special == LoadSpecialTokens(GetWords(special_tokens, <<>>),
                   [ok |-> TRUE, vocab_map |-> vocab1, token_map |-> <<>>, token_list |-> <<>>])
  IN IF ~bytes_ok \/ ~merges.ok \/ ~special.ok THEN [ok |-> FALSE]
     ELSE [ok |-> TRUE,
           vocab_map_ |-> special.vocab_map,
           unk_id_ |-> unk_id,
           byte_encoder_ |-> [i \in 0..255 |-> vocab1[EncodeUTF8Char(ByteCodePoint(i))]],
           bpe_map_ |-> merges.bpe_map,
           token_map_ |-> special.token_map,
           token_list_ |-> special.token_list]

\* the ids that more than one token of vocab_map has
CollidingIds(vocab_map) ==
  IF Cardinality({vocab_map[t] : t \in DOMAIN vocab_map}) = Cardinality(DOMAIN vocab_map)
    THEN {}
  ELSE {i \in {vocab_map[t] : t \in DOMAIN vocab_map} :
          Cardinality({t \in DOMAIN vocab_map : vocab_map[t] = i}) > 1}

\* whether the loop that fills id2token_map_ writes outside the array
Id2TokenOutOfBounds(vocab_map) ==
  \E t \in DOMAIN vocab_map :
     vocab_map[t] < 0 \/ vocab_map[t] >= Cardinality(DOMAIN vocab_map)

\* which of the tokens that share an id the loop over the unordered map
\* visits last: the choices of pick, a function from the ids in colliding that
\* are inside the array to tokens
Id2TokenPicks(vocab_map, colliding) ==
  {pick \in [{i \in colliding : i < Cardinality(DOMAIN vocab_map)}
               -> {t \in DOMAIN vocab_map : vocab_map[t] \in colliding}] :
     \A i \in DOMAIN pick : vocab_map[pick[i]] = i}

\* id2token_map_ after resize(vocab_map_.size()) and the loop
\* id2token_map_[i] = t: its size and the <<i, t>> of the slots written inside
\* it (a slot never written holds the empty string)
Id2TokenMap(vocab_map, pick) ==
  [size |-> Cardinality(DOMAIN vocab_map),
   written |-> {<<vocab_map[t], t>> :
                  t \in {t1 \in DOMAIN vocab_map :
                           /\ 0 <= vocab_map[t1]
                           /\ vocab_map[t1] < Cardinality(DOMAIN vocab_map)
                           /\ vocab_map[t1] \in DOMAIN pick => pick[vocab_map[t1]] = t1}}]

(***************************************************************************)
(* The model's vocabulary and merges files.                                *)
(***************************************************************************)
\* the id the model's vocabulary JSON gives the placeholder of byte b: the
\* printable bytes first, then the others, as in the CLIP vocabulary
ByteTokenId(b) ==
  IF 33 <= b /\ b <= 126 THEN b - 33
  ELSE IF 161 <= b /\ b <= 172 THEN 94 + (b - 161)
  ELSE IF 174 <= b /\ b <= 255 THEN 106 + (b - 174)
  ELSE 188 + (ByteCodePoint(b) - 256)

\* merged tokens of the model's merges files: ab bc</w> abc</w> ab</w> aa aaa
MergedTokens ==
  <<<<97, 98>>, <<98, 99>> \o EndOfWord, <<97, 98, 99>> \o EndOfWord,
    <<97, 98>> \o EndOfWord, <<97, 97>>, <<97, 97, 97>>>>

FunctionOf(entries) ==
  [t \in {e[1] : e \in entries} |-> (CHOOSE e \in entries : e[1] = t)[2]]

\* byte placeholders (0..255), the same with </w> (256..511), merged tokens
VocabNoSpecials ==
  FunctionOf({<<EncodeUTF8Char(ByteCodePoint(b)), ByteTokenId(b)>> : b \in 0..255}
             \cup {<<EncodeUTF8Char(ByteCodePoint(b)) \o EndOfWord, 256 + ByteTokenId(b)>> : b \in 0..255}
             \cup {<<MergedTokens[k], 511 + k>> : k \in 1..Len(MergedTokens)})

\* the same with <|startoftext|> and <|endoftext|> as its last two entries
VocabFull ==
  FunctionOf({<<t, VocabNoSpecials[t]>> : t \in DOMAIN VocabNoSpecials}
             \cup {<<StartOfText, Cardinality(DOMAIN VocabNoSpecials)>>,
                   <<EndOfText, Cardinality(DOMAIN VocabNoSpecials) + 1>>})

RECURSIVE JoinLines(_)
JoinLines(lines) == IF lines = <<>> THEN <<>> ELSE Head(lines) \o <<10>> \o JoinLines(Tail(lines))

\* #version, "a b", "b c</w>", "ab c</w>", "a b</w>", "a a"
Merges1 ==
  JoinLines(<<<<35, 118, 101, 114, 115, 105, 111, 110>>,
              <<97, 32, 98>>,
              <<98, 32, 99>> \o EndOfWord,
              <<97, 98, 32, 99>> \o EndOfWord,
              <<97, 32, 98>> \o EndOfWord,
              <<97, 32, 97>>>>)

\* "a a", a blank line, "aa a", "b c</w>", "a b</w>" with a carriage return
Merges2 ==
  JoinLines(<<<<97, 32, 97>>,
              <<>>,
              <<97, 97, 32, 97>>,
              <<98, 32, 99>> \o EndOfWord,
              <<97, 32, 98>> \o EndOfWord \o <<13>>>>)

\* the attribute pairs (vocab, merges) a kernel is constructed with
KernelAttributes == <<<<VocabFull, Merges1>>, <<VocabNoSpecials, Merges2>>>>

\* bbpe_tokenizer_->Load(vocab, merges, "<|endoftext|>",
\*                       "<|startoftext|>\n<|endoftext|>")
KernelLoad(vocab, merges) ==
  Load(vocab, merges, EndOfText, StartOfText \o <<10>> \o EndOfText)

\* the padding_length attributes the constructor accepts
PaddingLengths == {-1} \cup (1..MaxPadding)

\* the VocabData objects the constructor makes, one per attribute pair; a
\* VocabData is not written to after Load (Tokenize, Compute, bpe and the
\* lookups are const or read only), so a kernel's state holds the pointer
LoadedVocabData ==
  [k \in DOMAIN KernelAttributes |-> KernelLoad(KernelAttributes[k][1], KernelAttributes[k][2])]

(***************************************************************************)
(* State.                                                                  *)
(***************************************************************************)
VARIABLES
  bbpe_tokenizer_,  \* the kernel's pointer to its VocabData (see VocabData)
  padding_length_,  \* the kernel's padding_length attribute
  pc,               \* "idle", or which call has just returned
  str_input,        \* the strings (byte sequences) of the last call
  res,              \* Tokenize: the ids returned
  offset_map,       \* Tokenize and Compute: the list of offset mappings
  tokenize_results, \* Compute: the Tokenize result of every batch element
  max_length,       \* Tokenize: its argument; Compute: the row length
  token,            \* Compute: the tokenize_output tensor
  mask,             \* Compute: the attention_mask tensor
  offset,           \* Compute: the offset_mapping tensor
  compute_offset_mapping, \* whether the offsets were asked for
  vals,             \* bpe: the list of <<id, length>> being merged
  vals0,            \* bpe: the list it was called with
  bpe_pc,           \* bpe: "idle", "scan", "merge", "fold" or "done"
  pos_it,           \* bpe: the iterator pos_it (1-based, Len(vals) + 1 is end)
  ori_id1, ori_id2, \* bpe: the ids of the pair chosen by the scan
  aim_id,           \* bpe: the id the chosen pair merges to
  merges_done,      \* bpe: how many merges the call has made
  token_map_,       \* SpecialTokenMap: the map from token strings to ids
  token_list_,      \* SpecialTokenMap: the [str, id] entries in registration order
  stm_pc,           \* SpecialTokenMap: "idle", "added", "threw" or "split"
  add_str, add_id,  \* SpecialTokenMap: the arguments of the last Add
  split_input,      \* SpecialTokenMap: the input of the last SplitBySpecialTokens
  split_res,        \* SpecialTokenMap: the segments it returned
  vocab_map_,       \* VocabData: the map from token strings to ids
  unk_id_,          \* VocabData: the id GetEncoding falls back to
  byte_encoder_,    \* VocabData: the id of every byte value
  bpe_map_,         \* VocabData: the merge table
  id2token_map_,    \* VocabData: the inverse array (see Id2TokenMap)
  load_pc,          \* VocabData: "new", "loaded", "failed", "crashed" or "looked"
  load_args,        \* VocabData: the arguments Load was called with
  lookup,           \* VocabData: the last lookup made and what it gave
  text_left,        \* TokenWithRegularExp: m_text, the text that remains
  re_input,         \* TokenWithRegularExp: the slice handed to Set
  re_tokens,        \* TokenWithRegularExp: the tokens GetNextToken returned
  re_pc,            \* TokenWithRegularExp: "idle", "set", "token" or "end"
  calls             \* concurrent Tokenize calls: the locals of every thread's call

vars == <<bbpe_tokenizer_, padding_length_, pc, str_input, res, offset_map,
          tokenize_results, max_length, token, mask, offset,
          compute_offset_mapping,
          vals, vals0, bpe_pc, pos_it, ori_id1, ori_id2, aim_id, merges_done,
          token_map_, token_list_, stm_pc, add_str, add_id, split_input, split_res,
          vocab_map_, unk_id_, byte_encoder_, bpe_map_, id2token_map_,
          load_pc, load_args, lookup,
          text_left, re_input, re_tokens, re_pc, calls>>

kernel_vars == <<pc, str_input, res, offset_map, tokenize_results, max_length,
                 token, mask, offset, compute_offset_mapping>>
bpe_vars == <<vals, vals0, bpe_pc, pos_it, ori_id1, ori_id2, aim_id, merges_done>>
stm_vars == <<token_map_, token_list_, stm_pc, add_str, add_id, split_input, split_res>>
load_vars == <<vocab_map_, unk_id_, byte_encoder_, bpe_map_, id2token_map_,
               load_pc, load_args, lookup>>
re_vars == <<text_left, re_input, re_tokens, re_pc>>
conc_vars == <<calls>>

(***************************************************************************)
(* VocabData lookups.                                                      *)
(***************************************************************************)
\* *bbpe_tokenizer_, the object the methods below are called on (their first
\* parameter vd)
VocabData == LoadedVocabData[bbpe_tokenizer_]

\* Returns token if key was found in vocab, and unk_id_ otherwise
GetEncoding(vd, key) ==
  IF key \in DOMAIN vd.vocab_map_ THEN vd.vocab_map_[key] ELSE vd.unk_id_

ByteEncoder(vd) == vd.byte_encoder_

\* TokenToID: [ok, value], ok = FALSE when it throws InvalidArgument
TokenToID(vd, key) ==
  IF key \in DOMAIN vd.vocab_map_ THEN [ok |-> TRUE, value |-> vd.vocab_map_[key]]
  ELSE [ok |-> FALSE, value |-> -1]

\* IdToToken: [ok, value], ok = FALSE when it throws InvalidArgument;
\* id2token_map_ is indexed from 0
IdToToken(vd, id) ==
  IF id < 0 \/ id >= vd.id2token_map_.size THEN [ok |-> FALSE, value |-> <<>>]
  ELSE [ok |-> TRUE,
        value |-> IF \E e \in vd.id2token_map_.written : e[1] = id
                    THEN (CHOOSE e \in vd.id2token_map_.written : e[1] = id)[2]
                  ELSE <<>>]

SplitBySpecialTokens(vd, input) == SpecialTokenMapSplit(vd.token_list_, input)

(***************************************************************************)
(* VocabData::bpe.                                                         *)
(***************************************************************************)
\* std::numeric_limits<int>::max()
INT_MAX == 2147483647

\* a comparison that lets a later pair of equal rank replace the best
BpeBetterOrEqual(minval, value) == minval >= value

\* a scan that never takes a pair
BpeScanKeep(v, it, best, map_it) == best

\* whether the pair of ids is a key of bpe_map_
HasMerge(vd, id1, id2) == <<id1, id2>> \in DOMAIN vd.bpe_map_
MergeOf(vd, id1, id2) == vd.bpe_map_[<<id1, id2>>]

\* the comparison of the scan: whether a pair of rank value replaces the best
BpeBetter(minval, value) == minval > value

\* the global scan (the first for loop): best is [pos_it, minval, ori_id1,
\* ori_id2, aim_id], it the iterator; the loop ends when it2 reaches end
\* the best pair after the scan has looked at position it, where map_it is the
\* entry of bpe_map_ found for the pair there
BpeScanVisit(v, it, best, map_it) ==
  IF BpeBetter(best.minval, map_it.value)
    THEN [pos_it |-> it, minval |-> map_it.value,
          ori_id1 |-> v[it][1], ori_id2 |-> v[it + 1][1], aim_id |-> map_it.id]
  ELSE best

RECURSIVE BpeScanFrom(_, _, _, _)
BpeScanFrom(vd, v, it, best) ==
  IF it >= Len(v) THEN best
  ELSE IF ~HasMerge(vd, v[it][1], v[it + 1][1]) THEN BpeScanFrom(vd, v, it + 1, best)
  ELSE BpeScanFrom(vd, v, it + 1, BpeScanVisit(v, it, best, MergeOf(vd, v[it][1], v[it + 1][1])))

BpeScan(vd, v) ==
  BpeScanFrom(vd, v, 1, [pos_it |-> Len(v) + 1, minval |-> INT_MAX,
                         ori_id1 |-> 0, ori_id2 |-> 0, aim_id |-> 0])

\* a merge that erases nothing: the second element takes the merged id
BpeMergeNoErase(v, p, aim) ==
  SubSeq(v, 1, p) \o <<<<aim, v[p + 1][2] + v[p][2]>>>> \o Drop(v, p + 1)

\* a merge whose element keeps the length of the second element only
BpeMergeAtSecondLength(v, p, aim) ==
  SubSeq(v, 1, p - 1) \o <<<<aim, v[p + 1][2]>>>> \o Drop(v, p + 1)

\* token_length = pos_it->second; pos_it = vals.erase(pos_it);
\* pos_it->first = aim_id; pos_it->second = pos_it->second + token_length
BpeMergeAt(v, p, aim) ==
  SubSeq(v, 1, p - 1) \o <<<<aim, v[p + 1][2] + v[p][2]>>>> \o Drop(v, p + 1)

\* an iteration of the fold loop that does not compare the second id
BpeFoldStepFirstOnly(v, p, id1, id2, aim) ==
  IF p = Len(v) + 1 THEN [vals |-> v, pos_it |-> p, more |-> FALSE, merged |-> FALSE]
  ELSE IF v[p][1] # id1 THEN [vals |-> v, pos_it |-> p + 1, more |-> TRUE, merged |-> FALSE]
  ELSE IF p + 1 = Len(v) + 1 THEN [vals |-> v, pos_it |-> p, more |-> FALSE, merged |-> FALSE]
  ELSE [vals |-> BpeMergeAt(v, p, aim), pos_it |-> p + 1, more |-> TRUE, merged |-> TRUE]

\* one iteration of the fold loop (the second for loop) with the iterator at p:
\* the list, the iterator after the iteration's ++pos_it, and whether the loop
\* goes on
BpeFoldStep(v, p, id1, id2, aim) ==
  IF p = Len(v) + 1 THEN [vals |-> v, pos_it |-> p, more |-> FALSE, merged |-> FALSE]
  ELSE IF v[p][1] # id1 THEN [vals |-> v, pos_it |-> p + 1, more |-> TRUE, merged |-> FALSE]
  ELSE IF p + 1 = Len(v) + 1 THEN [vals |-> v, pos_it |-> p, more |-> FALSE, merged |-> FALSE]
  ELSE IF v[p + 1][1] # id2 THEN [vals |-> v, pos_it |-> p + 1, more |-> TRUE, merged |-> FALSE]
  ELSE [vals |-> BpeMergeAt(v, p, aim), pos_it |-> p + 1, more |-> TRUE, merged |-> TRUE]

\* the fold loop from the state step that an iteration left
RECURSIVE BpeFoldOn(_, _, _, _)
BpeFoldOn(step, id1, id2, aim) ==
  IF step.more THEN BpeFoldOn(BpeFoldStep(step.vals, step.pos_it, id1, id2, aim), id1, id2, aim)
  ELSE step.vals

\* the merge at the pair best the scan chose, then the fold loop
BpeMergeAndFold(v, best) ==
  BpeFoldOn([vals |-> BpeMergeAt(v, best.pos_it, best.aim_id), pos_it |-> best.pos_it + 1,
             more |-> TRUE, merged |-> TRUE],
            best.ori_id1, best.ori_id2, best.aim_id)

\* one pass of the while loop given the result best of its scan: the list
\* after the pass, or v itself when the loop is left
BpePass(v, best) == IF best.pos_it = Len(v) + 1 THEN v ELSE BpeMergeAndFold(v, best)

\* bpe as Tokenize calls it: the list it leaves in vals
RECURSIVE bpe(_, _)
bpe(vd, v) ==
  IF Len(v) < 2 \/ BpeScan(vd, v).pos_it = Len(v) + 1 THEN v
  ELSE bpe(vd, BpePass(v, BpeScan(vd, v)))

(***************************************************************************)
(* TokenWithRegularExp, the pre-tokenizer.  m_text is the text that        *)
(* remains; positions below are the code's 0-based ones.                   *)
(***************************************************************************)
IsL(ch) == category(ch) = "L"
IsN(ch) == category(ch) = "N"
IsZ(ch) == category(ch) = "Z"
NotLNZ(ch) == category(ch) \notin {"L", "N", "Z"}

InClass(ch, cls) ==
  CASE cls = "L" -> IsL(ch)
    [] cls = "N" -> IsN(ch)
    [] cls = "NotLNZ" -> NotLNZ(ch)
    [] cls = "Z" -> IsZ(ch)

\* for (; i < m_text.size(); ++i) if (m_text[i] is not of the class) break;
RECURSIVE RunEnd(_, _, _)
RunEnd(m_text, i, cls) ==
  IF i < Len(m_text) /\ InClass(m_text[i + 1], cls) THEN RunEnd(m_text, i + 1, cls) ELSE i

\* the token of the first i characters, and the text left
Matched(m_text, i) == [res |-> Take(m_text, i), m_text |-> Drop(m_text, i)]

\* the length of a separator run of length i when its last character is
\* always left for the next token
SeparatorRunLookahead(m_text, i) == i - 1

\* the length of a separator run of length i when the run is never cut
SeparatorRunWhole(m_text, i) == i

\* the length the whitespace branch emits for a separator run of length i
SeparatorRunLength(m_text, i) == IF i > 1 /\ i # Len(m_text) THEN i - 1 ELSE i

\* TryMatch on a non-empty m_text: the token (empty when nothing matches) and
\* the text left
TryMatch(m_text) ==
  LET size == Len(m_text)
      c0 == m_text[1]
  IN IF c0 = 39 /\ size > 1 /\ m_text[2] \in {115, 116, 109, 100}
       THEN Matched(m_text, 2)
     ELSE IF /\ c0 = 39 /\ size > 2
             /\ <<m_text[2], m_text[3]>> \in {<<114, 101>>, <<118, 101>>, <<108, 108>>}
       THEN Matched(m_text, 3)
     ELSE IF c0 = 32 /\ size > 1 /\ IsL(m_text[2]) THEN Matched(m_text, RunEnd(m_text, 2, "L"))
     ELSE IF IsL(c0) THEN Matched(m_text, RunEnd(m_text, 1, "L"))
     ELSE IF c0 = 32 /\ size > 1 /\ IsN(m_text[2]) THEN Matched(m_text, RunEnd(m_text, 2, "N"))
     ELSE IF IsN(c0) THEN Matched(m_text, RunEnd(m_text, 1, "N"))
     ELSE IF c0 = 32 /\ size > 1 /\ NotLNZ(m_text[2])
       THEN Matched(m_text, RunEnd(m_text, 2, "NotLNZ"))
     ELSE IF NotLNZ(c0) THEN Matched(m_text, RunEnd(m_text, 1, "NotLNZ"))
     ELSE IF size >= 1 /\ IsZ(c0)
       THEN Matched(m_text, SeparatorRunLength(m_text, RunEnd(m_text, 1, "Z")))
     ELSE [res |-> <<>>, m_text |-> m_text]

\* GetNextToken: [b, tok, m_text]
RECURSIVE GetNextToken(_)
GetNextToken(m_text) ==
  IF m_text = <<>> THEN [b |-> FALSE, tok |-> <<>>, m_text |-> m_text]
  ELSE LET r == TryMatch(m_text)
       IN IF r.res = <<>> THEN GetNextToken(Drop(m_text, 1))
          ELSE [b |-> TRUE, tok |-> r.res, m_text |-> r.m_text]

(***************************************************************************)
(* KernelClipBpeTokenizer::Tokenize.                                       *)
(***************************************************************************)
\* stands for INT64_MAX, the max_length Compute passes when padding_length_ is
\* -1; it is only ever compared with the size of a list
INT64_MAX == 2147483647

\* utf8_token.erase(std::remove(begin, end, ' '), end)
RemoveSpaces(utf8_token) == LET NotSpace(c) == c # 32 IN SelectSeq(utf8_token, NotSpace)

\* the byte encodings of a pre-token prior to BPE: every byte through the byte
\* encoder, but the last one looked up as that byte followed by "</w>"
ByteList(vd, utf8_token) ==
  [i \in 1..Len(utf8_token) |->
     IF i = Len(utf8_token) THEN <<GetEncoding(vd, <<utf8_token[i]>> \o EndOfWord), 1>>
     ELSE <<ByteEncoder(vd)[utf8_token[i]], 1>>]

\* a result counted full one id late
ResFullLate(r, max_len) == Len(r) > max_len

\* whether the result is full: static_cast<int64_t>(res.size()) >= max_length
ResFull(r, max_len) == Len(r) >= max_len

\* "Add output to result": st is [res, offset, offset_mapping]
RECURSIVE AddOutput(_, _, _, _)
AddOutput(byte_list, st, max_len, with_offsets) ==
  IF byte_list = <<>> \/ ResFull(st.res, max_len) THEN st
  ELSE AddOutput(Tail(byte_list),
         [res |-> Append(st.res, Head(byte_list)[1]),
          offset |-> IF with_offsets THEN st.offset + Head(byte_list)[2]
                     ELSE st.offset,
          offset_mapping |->
            IF with_offsets
              THEN Append(st.offset_mapping, <<st.offset, st.offset + Head(byte_list)[2]>>)
              ELSE st.offset_mapping],
         max_len, with_offsets)

\* the body of the while loop for the pre-token utf8_token: the offset steps
\* over a leading space, the spaces are removed, the bytes are encoded and
\* merged by bpe, and the ids are added to the result
AddToken(vd, utf8_token, st, max_len, with_offsets) ==
  AddOutput(bpe(vd, ByteList(vd, RemoveSpaces(utf8_token))),
            [st EXCEPT !.offset = IF with_offsets /\ utf8_token[1] = 32
                                    THEN @ + 1 ELSE @],
            max_len, with_offsets)

\* the while loop over the pre-tokens of one literal segment
RECURSIVE TokenizeTokens(_, _, _, _, _)
RECURSIVE TokenizeNext(_, _, _, _, _)
TokenizeTokens(vd, m_text, st, max_len, with_offsets) ==
  IF ResFull(st.res, max_len) THEN st
  ELSE TokenizeNext(vd, GetNextToken(m_text), st, max_len, with_offsets)

\* the loop after GetNextToken returned next
TokenizeNext(vd, next, st, max_len, with_offsets) ==
  IF ~next.b THEN st
  ELSE TokenizeTokens(vd, next.m_text,
                      AddToken(vd, ToUTF8(next.tok), st, max_len, with_offsets),
                      max_len, with_offsets)

\* the end of the segment loop's body: the segment's offset mapping gets its
\* closing (0,0) and is appended to the list of offset mappings
CloseSegment(st, om, with_offsets) ==
  [res |-> st.res,
   offset_map |-> IF with_offsets
                    THEN Append(om, Append(st.offset_mapping, <<0, 0>>))
                    ELSE om]

\* the body of the segment loop for a literal segment: a new offset mapping
\* that starts with (0,0), and the segment's pre-tokens added to the result
LiteralSegment(vd, cur_input, acc, max_len, with_offsets) ==
  CloseSegment(TokenizeTokens(vd, cur_input,
                 [res |-> acc.res, offset |-> 0,
                  offset_mapping |-> IF with_offsets THEN <<<<0, 0>>>> ELSE <<>>],
                 max_len, with_offsets),
               acc.offset_map, with_offsets)

\* the body of the segment loop for a segment tagged with a special token id
SpecialSegment(seg_id, acc) == [acc EXCEPT !.res = Append(@, seg_id[2])]

\* the loop over the segments of the special-token split: acc is
\* [res, offset_map]
RECURSIVE TokenizeSegments(_, _, _, _, _)
TokenizeSegments(vd, segs, acc, max_len, with_offsets) ==
  IF segs = <<>> \/ ResFull(acc.res, max_len) THEN acc
  ELSE IF Head(segs)[2] # -1
    THEN TokenizeSegments(vd, Tail(segs), SpecialSegment(Head(segs), acc),
                          max_len, with_offsets)
  ELSE TokenizeSegments(vd, Tail(segs),
                        LiteralSegment(vd, Head(segs)[1], acc, max_len, with_offsets),
                        max_len, with_offsets)

\* std::transform(input.begin(), input.end(), input.begin(), ToLower)
Lowercase(input) == [i \in 1..Len(input) |-> ToLower(input[i])]

\* the segments Tokenize parses: the special-token split of the cleaned input
\* after it is converted to lowercase
ParseInput(vd, cleaned) == SplitBySpecialTokens(vd, Lowercase(cleaned))

\* the ids pushed before and after the segments
BosIds(vd) == <<GetEncoding(vd, StartOfText)>>
EosIds(vd) == <<GetEncoding(vd, EndOfText)>>

\* a result left without its closing id
WithoutEos(vd, body) == body

\* "Add EOS token to result"
AppendEos(vd, body) == [body EXCEPT !.res = @ \o EosIds(vd)]

\* Tokenize after WhiteSpaceClean(input) left cleaned
TokenizeCleaned(vd, cleaned, max_len, with_offsets, om) ==
  IF IsEmptyUString(cleaned) THEN [res |-> <<>>, offset_map |-> om]
  ELSE AppendEos(vd, TokenizeSegments(vd, ParseInput(vd, cleaned),
                                      [res |-> BosIds(vd), offset_map |-> om],
                                      max_len, with_offsets))

\* Tokenize(input, max_length, with_offsets, offset_map) on the
\* VocabData vd: the ids it returns and the list of offset mappings it leaves
Tokenize(vd, input, max_len, with_offsets, om) ==
  TokenizeCleaned(vd, WhiteSpaceClean(input), max_len, with_offsets, om)

(***************************************************************************)
(* KernelClipBpeTokenizer::Compute.  A tensor is [present, size, data,     *)
(* written, spill]: size elements were allocated, data holds them, written *)
(* counts the writes made through the running index, and spill holds the   *)
(* values written past the allocation.  An element never written keeps     *)
(* whatever the allocator left there.                                      *)
(***************************************************************************)
\* the max_length Compute hands to Tokenize
MaxLengthArg == IF padding_length_ < 0 THEN INT64_MAX ELSE padding_length_

\* the loop over str_input: st is [results, offset_map]
\* tokenize_results.emplace_back(t) for the result t of a Tokenize call
EmplaceBack(st, t) == [results |-> Append(st.results, t.res), offset_map |-> t.offset_map]

RECURSIVE TokenizeBatch(_, _, _, _, _)
TokenizeBatch(vd, strs, max_len, with_offsets, st) ==
  IF strs = <<>> THEN st
  ELSE TokenizeBatch(vd, Tail(strs), max_len, with_offsets,
         EmplaceBack(st, Tokenize(vd, FromUTF8(Head(strs)), max_len,
                                  with_offsets, st.offset_map)))

RECURSIVE LongestResult(_)
LongestResult(results) ==
  IF results = <<>> THEN 0 ELSE Max(Len(Head(results)), LongestResult(Tail(results)))

\* size_t max_length of Compute
RowLength(results) == IF padding_length_ = -1 THEN LongestResult(results) ELSE padding_length_

\* a row loop that pads with 0 whatever the pad value is
RowWritesZeroPad(r, max_len, pad, ones) ==
  [k \in 1..Len(r) |-> IF ones THEN 1 ELSE r[k]] \o [k \in 1..(max_len - Len(r)) |-> 0]

\* the values one row loop writes: real(id) for every id of the result, then
\* pad for i = res.size() .. max_length - 1
RowWrites(r, max_len, pad, ones) ==
  [k \in 1..Len(r) |-> IF ones THEN 1 ELSE r[k]] \o [k \in 1..(max_len - Len(r)) |-> pad]

\* the values written to the token tensor, in the order of the running idx
TokenWrites(results, max_len, pad_token) ==
  Flatten([i \in 1..Len(results) |-> RowWrites(results[i], max_len, pad_token, FALSE)])

\* the values written to the mask tensor
MaskWrites(results, max_len) ==
  Flatten([i \in 1..Len(results) |-> RowWrites(results[i], max_len, 0, TRUE)])

\* the values written to the offset tensor: first and second of every mapping
\* of every offset mapping of the list, one after the other
OffsetWrites(om) == Flatten(Flatten(om))

Allocate(size, writes, uninit) ==
  [present |-> TRUE, size |-> size,
   data |-> [i \in 1..size |-> IF i <= Len(writes) THEN writes[i] ELSE uninit],
   written |-> Len(writes),
   spill |-> SubSeq(writes, size + 1, Len(writes))]

NoTensor == [present |-> FALSE, size |-> 0, data |-> <<>>, written |-> 0, spill |-> <<>>]

\* whether the running index of a tensor's loops went past its allocation;
\* the writes past it are undefined behaviour
Overflown(t) == t.spill # <<>>

\* what an unwritten tensor element may hold
UninitValues == {0, -1}

(***************************************************************************)
(* Inputs.                                                                 *)
(***************************************************************************)
\* a, B, space, newline, tab, 1, <|endoftext|>, <|ENDOFTEXT|>
Pieces == {<<97>>, <<66>>, <<32>>, <<10>>, <<9>>, <<49>>, EndOfText, EndOfTextUpper}
Inputs == {ToUTF8(Flatten(ps)) : ps \in SeqsUpTo(Pieces, MaxPieces)}

\* a, space, <|endoftext|>
BatchPieces == {<<97>>, <<32>>, EndOfText}
BatchInputs == {ToUTF8(Flatten(ps)) : ps \in SeqsUpTo(BatchPieces, MaxBatchPieces)}
Batches == {<<x>> : x \in BatchInputs} \cup {<<x, y>> : x \in BatchInputs, y \in BatchInputs}

(***************************************************************************)
(* The kernel as a state machine: constructed once, then called.           *)
(***************************************************************************)
KernelIdle ==
  /\ pc = "idle"
  /\ str_input = <<>>
  /\ res = <<>>
  /\ offset_map = <<>>
  /\ tokenize_results = <<>>
  /\ max_length = 0
  /\ token = NoTensor
  /\ mask = NoTensor
  /\ offset = NoTensor
  /\ compute_offset_mapping = FALSE

BpeIdle ==
  /\ vals = <<>>
  /\ vals0 = <<>>
  /\ bpe_pc = "idle"
  /\ pos_it = 1
  /\ ori_id1 = 0
  /\ ori_id2 = 0
  /\ aim_id = 0
  /\ merges_done = 0

\* a SpecialTokenMap as its constructor leaves it
TokensIdle ==
  /\ token_map_ = <<>>
  /\ token_list_ = <<>>
  /\ stm_pc = "idle"
  /\ add_str = <<>>
  /\ add_id = 0
  /\ split_input = <<>>
  /\ split_res = <<>>

\* a VocabData as its constructor leaves it: unk_id_(-1), empty tables
LoadIdle ==
  /\ vocab_map_ = <<>>
  /\ unk_id_ = -1
  /\ byte_encoder_ = [i \in 0..255 |-> 0]
  /\ bpe_map_ = <<>>
  /\ id2token_map_ = [size |-> 0, written |-> {}]
  /\ load_pc = "new"
  /\ load_args = <<>>
  /\ lookup = <<>>

\* a TokenWithRegularExp before Set
RegexIdle ==
  /\ text_left = <<>>
  /\ re_input = <<>>
  /\ re_tokens = <<>>
  /\ re_pc = "idle"

\* the threads that call Tokenize on one kernel
Threads == {1, 2}

\* the locals of a Tokenize call that has not been entered
NoCall ==
  [pc |-> "idle", input |-> <<>>, max_len |-> 0, with_offsets |-> FALSE,
   cleaned |-> <<>>, segs |-> <<>>, m_text |-> <<>>,
   res |-> <<>>, offset |-> 0, offset_mapping |-> <<>>, offset_map |-> <<>>]

\* no Tokenize call is running
ConcIdle == calls = [t \in Threads |-> NoCall]

\* the constructor: the attributes are read, padding_length is validated, the
\* tables are loaded
Constructed ==
  /\ bbpe_tokenizer_ \in {k \in DOMAIN LoadedVocabData : LoadedVocabData[k].ok}
  /\ padding_length_ \in PaddingLengths

Init == Constructed /\ KernelIdle /\ BpeIdle /\ TokensIdle /\ LoadIdle /\ RegexIdle /\ ConcIdle

\* one call of Tokenize, as Compute makes it for one string
TokenizeCall ==
  /\ pc = "idle"
  /\ \E str \in Inputs, with_offsets \in BOOLEAN :
       \E t \in {Tokenize(VocabData, FromUTF8(str), MaxLengthArg, with_offsets, <<>>)} :
          /\ str_input' = <<str>>
          /\ compute_offset_mapping' = with_offsets
          /\ res' = t.res
          /\ offset_map' = t.offset_map
  /\ max_length' = MaxLengthArg
  /\ pc' = "tokenized"
  /\ UNCHANGED <<bbpe_tokenizer_, padding_length_, tokenize_results, token, mask, offset>>
  /\ UNCHANGED bpe_vars
  /\ UNCHANGED <<stm_vars, load_vars, re_vars, conc_vars>>

\* one call of Compute on a batch of strings, with or without the optional
\* attention_mask and offset_mapping outputs.  When a loop wrote past the end
\* of a tensor the call either returns, the values having landed in the memory
\* after the tensor, or the process is stopped ("crashed")
ComputeCall ==
  /\ pc = "idle"
  /\ \E batch \in Batches, want_mask \in BOOLEAN, want_offset \in BOOLEAN :
       \E done \in {TokenizeBatch(VocabData, batch, MaxLengthArg, want_offset,
                                   [results |-> <<>>, offset_map |-> <<>>])} :
       \E row \in {RowLength(done.results)} :
          /\ str_input' = batch
          /\ compute_offset_mapping' = want_offset
          /\ tokenize_results' = done.results
          /\ offset_map' = done.offset_map
          /\ max_length' = row
          /\ \E uninit \in (IF want_offset THEN UninitValues ELSE {0}) :
               /\ token' = Allocate(Len(batch) * row,
                                    TokenWrites(done.results, row, GetEncoding(VocabData, EndOfText)),
                                    uninit)
               /\ mask' = IF want_mask
                            THEN Allocate(Len(batch) * row, MaskWrites(done.results, row), uninit)
                            ELSE NoTensor
               /\ offset' = IF want_offset
                              THEN Allocate(Len(batch) * row * 2, OffsetWrites(done.offset_map), uninit)
                              ELSE NoTensor
  /\ pc' \in (IF Overflown(token') \/ Overflown(mask') \/ Overflown(offset')
               THEN {"computed", "crashed"} ELSE {"computed"})
  /\ UNCHANGED <<bbpe_tokenizer_, padding_length_, res>>
  /\ UNCHANGED bpe_vars
  /\ UNCHANGED <<stm_vars, load_vars, re_vars, conc_vars>>

\* the call returned and the caller drops the outputs: the per-call state is
\* discarded
Return ==
  /\ pc \in {"tokenized", "computed"}
  /\ pc' = "idle"
  /\ str_input' = <<>>
  /\ res' = <<>>
  /\ offset_map' = <<>>
  /\ tokenize_results' = <<>>
  /\ max_length' = 0
  /\ token' = NoTensor
  /\ mask' = NoTensor
  /\ offset' = NoTensor
  /\ compute_offset_mapping' = FALSE
  /\ UNCHANGED <<bbpe_tokenizer_, padding_length_>>
  /\ UNCHANGED bpe_vars
  /\ UNCHANGED <<stm_vars, load_vars, re_vars, conc_vars>>

Next == TokenizeCall \/ ComputeCall \/ Return

Spec == Init /\ [][Next]_vars

(***************************************************************************)
(* bpe on its own, one merge at a time.                                    *)
(***************************************************************************)
\* the elements the lists handed to bpe are made of: the ids of a, b and
\* c</w> with length 1, and the id of a with length 2
BpeElems == {<<ByteTokenId(97), 1>>, <<ByteTokenId(98), 1>>,
             <<256 + ByteTokenId(99), 1>>, <<ByteTokenId(97), 2>>}

BpeInit ==
  /\ Constructed
  /\ padding_length_ = -1
  /\ KernelIdle
  /\ TokensIdle
  /\ LoadIdle
  /\ RegexIdle
  /\ ConcIdle
  /\ vals \in SeqsUpTo(BpeElems, MaxVals)
  /\ vals0 = vals
  /\ bpe_pc = "scan"
  /\ pos_it = 1
  /\ ori_id1 = 0
  /\ ori_id2 = 0
  /\ aim_id = 0
  /\ merges_done = 0

\* the head of the while loop and the global scan
BpeScanStep ==
  /\ bpe_pc = "scan"
  /\ \E best \in {BpeScan(VocabData, vals)} :
       IF Len(vals) < 2 \/ best.pos_it = Len(vals) + 1
         THEN /\ bpe_pc' = "done"
              /\ UNCHANGED <<pos_it, ori_id1, ori_id2, aim_id>>
         ELSE /\ bpe_pc' = "merge"
              /\ pos_it' = best.pos_it
              /\ ori_id1' = best.ori_id1
              /\ ori_id2' = best.ori_id2
              /\ aim_id' = best.aim_id
  /\ UNCHANGED <<vals, vals0, merges_done, bbpe_tokenizer_, padding_length_>>
  /\ UNCHANGED kernel_vars
  /\ UNCHANGED <<stm_vars, load_vars, re_vars, conc_vars>>

\* the merge of the chosen pair, and the ++pos_it that starts the fold loop
BpeMergeStep ==
  /\ bpe_pc = "merge"
  /\ vals' = BpeMergeAt(vals, pos_it, aim_id)
  /\ pos_it' = pos_it + 1
  /\ merges_done' = merges_done + 1
  /\ bpe_pc' = "fold"
  /\ UNCHANGED <<vals0, ori_id1, ori_id2, aim_id, bbpe_tokenizer_, padding_length_>>
  /\ UNCHANGED kernel_vars
  /\ UNCHANGED <<stm_vars, load_vars, re_vars, conc_vars>>

\* one iteration of the fold loop, or its end
BpeFoldIter ==
  /\ bpe_pc = "fold"
  /\ \E step \in {BpeFoldStep(vals, pos_it, ori_id1, ori_id2, aim_id)} :
        /\ vals' = step.vals
        /\ pos_it' = step.pos_it
        /\ merges_done' = IF step.merged THEN merges_done + 1 ELSE merges_done
        /\ bpe_pc' = IF step.more THEN "fold" ELSE "scan"
  /\ UNCHANGED <<vals0, ori_id1, ori_id2, aim_id, bbpe_tokenizer_, padding_length_>>
  /\ UNCHANGED kernel_vars
  /\ UNCHANGED <<stm_vars, load_vars, re_vars, conc_vars>>

BpeNext == BpeScanStep \/ BpeMergeStep \/ BpeFoldIter

SpecBpe == BpeInit /\ [][BpeNext]_vars

\* bpe runs on the thread that called it: a step that can be taken is taken
SpecBpeFair == SpecBpe /\ WF_vars(BpeNext)


(***************************************************************************)
(* A SpecialTokenMap on its own: any sequence of Add and                   *)
(* SplitBySpecialTokens calls.                                             *)
(***************************************************************************)
\* the strings handed to Add: "", "x", "xx", "xy"
TokenStrings == {<<>>, <<120>>, <<120, 120>>, <<120, 121>>}
\* the ids handed to Add
TokenIds == {1, 2}
\* the inputs handed to SplitBySpecialTokens: strings of x and y
SplitInputs == SeqsUpTo({120, 121}, MaxSplitLen)

TokensInit ==
  /\ bbpe_tokenizer_ = 1
  /\ padding_length_ = -1
  /\ KernelIdle
  /\ BpeIdle
  /\ TokensIdle
  /\ LoadIdle
  /\ RegexIdle
  /\ ConcIdle

\* special_tokens_.Add(p_str, p_id): it returns or throws InvalidArgument
AddCall ==
  /\ \E s \in TokenStrings, i \in TokenIds :
       \E added \in {SpecialTokenMapAdd(token_map_, token_list_, s, i)} :
          /\ token_map_' = added.token_map
          /\ token_list_' = added.token_list
          /\ stm_pc' = IF added.ok THEN "added" ELSE "threw"
          /\ add_str' = s
          /\ add_id' = i
  /\ split_input' = <<>>
  /\ split_res' = <<>>
  /\ UNCHANGED <<bbpe_tokenizer_, padding_length_, kernel_vars, bpe_vars, load_vars, re_vars, conc_vars>>

\* special_tokens_.SplitBySpecialTokens(input)
SplitCall ==
  /\ \E in \in SplitInputs :
       /\ split_input' = in
       /\ split_res' = SpecialTokenMapSplit(token_list_, in)
  /\ stm_pc' = "split"
  /\ add_str' = <<>>
  /\ add_id' = 0
  /\ UNCHANGED <<token_map_, token_list_>>
  /\ UNCHANGED <<bbpe_tokenizer_, padding_length_, kernel_vars, bpe_vars, load_vars, re_vars, conc_vars>>

TokensNext == AddCall \/ SplitCall

SpecTokens == TokensInit /\ [][TokensNext]_vars

(***************************************************************************)
(* A VocabData on its own: Load, then lookups.                             *)
(***************************************************************************)
\* the byte placeholders with the ids of the model's vocabulary
ByteEntries == {<<EncodeUTF8Char(ByteCodePoint(b)), ByteTokenId(b)>> : b \in 0..255}

\* the vocabulary JSONs handed to Load; their ids are unique and not negative
\*  1: the placeholders, ab, #a, <|endoftext|> with the ids 0..258
\*  2: the same without <|endoftext|>
\*  3: without <|endoftext|>, and the placeholder of byte 173 has the id 258
\*     in place of 255
\*  4: without <|endoftext|>, and #a has the id 300
LoadVocabs ==
  << FunctionOf(ByteEntries \cup {<<(<<97, 98>>), 256>>, <<(<<35, 97>>), 257>>, <<EndOfText, 258>>}),
     FunctionOf(ByteEntries \cup {<<(<<97, 98>>), 256>>, <<(<<35, 97>>), 257>>}),
     FunctionOf({e \in ByteEntries : e[2] # 255}
                \cup {<<EncodeUTF8Char(ByteCodePoint(173)), 258>>,
                      <<(<<97, 98>>), 256>>, <<(<<35, 97>>), 257>>}),
     FunctionOf(ByteEntries \cup {<<(<<97, 98>>), 256>>, <<(<<35, 97>>), 300>>}) >>

\* the lines of the merges texts: "#v", "# a", "a b", "", "a c"
MergeLines == {<<35, 118>>, <<35, 32, 97>>, <<97, 32, 98>>, <<>>, <<97, 32, 99>>}
LoadMerges_texts == {JoinLines(ls) : ls \in SeqsUpTo(MergeLines, MaxMergeLines)}

\* the members of the VocabData as the record the lookups take
ThisVocabData ==
  [vocab_map_ |-> vocab_map_, unk_id_ |-> unk_id_, byte_encoder_ |-> byte_encoder_,
   bpe_map_ |-> bpe_map_, id2token_map_ |-> id2token_map_,
   token_map_ |-> token_map_, token_list_ |-> token_list_]

LoadInit ==
  /\ bbpe_tokenizer_ = 1
  /\ padding_length_ = -1
  /\ KernelIdle
  /\ BpeIdle
  /\ TokensIdle
  /\ LoadIdle
  /\ RegexIdle
  /\ ConcIdle

\* Load(vocab_stream, merges_stream, "<|endoftext|>",
\* "<|startoftext|>\n<|endoftext|>") on a new VocabData, as the kernel's
\* constructor calls it: it returns, or throws InvalidArgument ("failed"); when the loop
\* that fills id2token_map_ writes outside the array the call either returns
\* or the process is stopped ("crashed")
LoadCall ==
  /\ load_pc = "new"
  /\ \E v \in DOMAIN LoadVocabs, m \in LoadMerges_texts :
       /\ load_args' = [vocab |-> v, merges |-> m]
       /\ \E loaded \in {KernelLoad(LoadVocabs[v], m)} :
            IF ~loaded.ok
              THEN /\ load_pc' = "failed"
                   /\ UNCHANGED <<vocab_map_, unk_id_, byte_encoder_, bpe_map_, id2token_map_,
                                  token_map_, token_list_>>
              ELSE /\ vocab_map_' = loaded.vocab_map_
                   /\ unk_id_' = loaded.unk_id_
                   /\ byte_encoder_' = loaded.byte_encoder_
                   /\ bpe_map_' = loaded.bpe_map_
                   /\ token_map_' = loaded.token_map_
                   /\ token_list_' = loaded.token_list_
                   /\ \E colliding \in {CollidingIds(loaded.vocab_map_)} :
                        \E pick \in Id2TokenPicks(loaded.vocab_map_, colliding) :
                           id2token_map_' = Id2TokenMap(loaded.vocab_map_, pick)
                   /\ load_pc' \in (IF Id2TokenOutOfBounds(loaded.vocab_map_)
                                      THEN {"loaded", "crashed"} ELSE {"loaded"})
  /\ UNCHANGED <<lookup, stm_pc, add_str, add_id, split_input, split_res>>
  /\ UNCHANGED <<bbpe_tokenizer_, padding_length_, kernel_vars, bpe_vars, re_vars, conc_vars>>

\* the keys looked up: "a", "zz", "<|endoftext|>"
LookupKeys == {<<97>>, <<122, 122>>, EndOfText}
\* the ids looked up
LookupIds == {-1, 0, 255, 258, 300}

\* what a lookup leaves unchanged
LookupFrame ==
  /\ load_pc \in {"loaded", "looked"}
  /\ load_pc' = "looked"
  /\ UNCHANGED <<vocab_map_, unk_id_, byte_encoder_, bpe_map_, id2token_map_, load_args>>
  /\ UNCHANGED <<stm_vars, bbpe_tokenizer_, padding_length_, kernel_vars, bpe_vars, re_vars, conc_vars>>

GetEncodingCall ==
  /\ \E key \in LookupKeys :
       lookup' = [op |-> "GetEncoding", arg |-> key, ok |-> TRUE,
                  value |-> GetEncoding(ThisVocabData, key)]
  /\ LookupFrame

TokenToIDCall ==
  /\ \E key \in LookupKeys :
       lookup' = [op |-> "TokenToID", arg |-> key, ok |-> TokenToID(ThisVocabData, key).ok,
                  value |-> TokenToID(ThisVocabData, key).value]
  /\ LookupFrame

IdToTokenCall ==
  /\ \E id \in LookupIds :
       lookup' = [op |-> "IdToToken", arg |-> id, ok |-> IdToToken(ThisVocabData, id).ok,
                  value |-> IdToToken(ThisVocabData, id).value]
  /\ LookupFrame

LoadNext == LoadCall \/ GetEncodingCall \/ TokenToIDCall \/ IdToTokenCall

SpecLoad == LoadInit /\ [][LoadNext]_vars

(***************************************************************************)
(* A TokenWithRegularExp on its own: Set, then GetNextToken until it       *)
(* returns false.                                                          *)
(***************************************************************************)
\* the characters of the slices: ' s r e space no-break-space 1 !
SliceChars == {39, 115, 114, 101, 32, 160, 49, 33}
Slices == SeqsUpTo(SliceChars, MaxSliceLen)

RegexInit ==
  /\ bbpe_tokenizer_ = 1
  /\ padding_length_ = -1
  /\ KernelIdle
  /\ BpeIdle
  /\ TokensIdle
  /\ LoadIdle
  /\ RegexIdle
  /\ ConcIdle

\* Set(val)
SetCall ==
  /\ re_pc = "idle"
  /\ \E val \in Slices :
       /\ re_input' = val
       /\ text_left' = val
  /\ re_tokens' = <<>>
  /\ re_pc' = "set"
  /\ UNCHANGED <<bbpe_tokenizer_, padding_length_, kernel_vars, bpe_vars, stm_vars, load_vars, conc_vars>>

\* GetNextToken(), called as Tokenize calls it: until it has returned false
GetNextTokenCall ==
  /\ re_pc \in {"set", "token"}
  /\ \E r \in {GetNextToken(text_left)} :
       /\ text_left' = r.m_text
       /\ re_tokens' = IF r.b THEN Append(re_tokens, r.tok) ELSE re_tokens
       /\ re_pc' = IF r.b THEN "token" ELSE "end"
  /\ UNCHANGED re_input
  /\ UNCHANGED <<bbpe_tokenizer_, padding_length_, kernel_vars, bpe_vars, stm_vars, load_vars, conc_vars>>

RegexNext == SetCall \/ GetNextTokenCall

SpecRegex == RegexInit /\ [][RegexNext]_vars

(***************************************************************************)
(* Tokenize calls of several threads on one kernel.  The tables are the    *)
(* members of the one VocabData; res, byte_list, regcmp, offset and        *)
(* offset_mapping are locals of a call, input and offset_map belong to its *)
(* caller.  A step is the code between two reads of the tables.            *)
(***************************************************************************)
\* the arguments <<input, max_length, compute_offset_mapping>> of the calls:
\* "ab a", "a<|endoftext|>b", two spaces, e-acute
ConcArguments ==
  { <<(<<97, 98, 32, 97>>), INT64_MAX, TRUE>>,
    <<(<<97>> \o EndOfText \o <<98>>), INT64_MAX, FALSE>>,
    <<(<<32, 32>>), 3, FALSE>>,
    <<(<<233>>), 3, TRUE>> }

\* the members of the VocabData the constructor made from attribute pair k
LoadedTables(k) ==
  [vocab_map_ |-> LoadedVocabData[k].vocab_map_,
   unk_id_ |-> LoadedVocabData[k].unk_id_,
   byte_encoder_ |-> LoadedVocabData[k].byte_encoder_,
   bpe_map_ |-> LoadedVocabData[k].bpe_map_,
   id2token_map_ |-> Id2TokenMap(LoadedVocabData[k].vocab_map_, <<>>),
   token_map_ |-> LoadedVocabData[k].token_map_,
   token_list_ |-> LoadedVocabData[k].token_list_]

\* the members are those of vd
TablesAre(vd) ==
  /\ vocab_map_ = vd.vocab_map_
  /\ unk_id_ = vd.unk_id_
  /\ byte_encoder_ = vd.byte_encoder_
  /\ bpe_map_ = vd.bpe_map_
  /\ id2token_map_ = vd.id2token_map_
  /\ token_map_ = vd.token_map_
  /\ token_list_ = vd.token_list_

ConcInit ==
  /\ bbpe_tokenizer_ = 1
  /\ padding_length_ = -1
  /\ KernelIdle
  /\ BpeIdle
  /\ RegexIdle
  /\ ConcIdle
  /\ stm_pc = "idle"
  /\ add_str = <<>>
  /\ add_id = 0
  /\ split_input = <<>>
  /\ split_res = <<>>
  /\ TablesAre(LoadedTables(bbpe_tokenizer_))
  /\ load_pc = "loaded"
  /\ load_args = <<>>
  /\ lookup = <<>>

\* a lookup that enters a key that is absent, as vocab_map_[key] does
GetEncodingInserts(vd, key) ==
  IF key \in DOMAIN vd.vocab_map_ THEN vd
  ELSE [vd EXCEPT !.vocab_map_ = MapPut(@, key, 0)]

\* the members GetEncoding(key) leaves: it is not a const member function,
\* but it only calls find
GetEncodingLeaves(vd, key) == vd

\* the members the while loop's body leaves for the pre-token utf8_token:
\* GetEncoding is called for its last byte followed by "</w>"; ByteEncoder
\* and bpe are const
AddTokenLeaves(vd, utf8_token) ==
  IF RemoveSpaces(utf8_token) = <<>> THEN vd
  ELSE GetEncodingLeaves(vd, <<RemoveSpaces(utf8_token)[Len(RemoveSpaces(utf8_token))]>> \o EndOfWord)

\* the step leaves the members as vd and changes only the call of thread t
ConcFrame(t, vd) ==
  /\ vocab_map_' = vd.vocab_map_
  /\ unk_id_' = vd.unk_id_
  /\ byte_encoder_' = vd.byte_encoder_
  /\ bpe_map_' = vd.bpe_map_
  /\ id2token_map_' = vd.id2token_map_
  /\ token_map_' = vd.token_map_
  /\ token_list_' = vd.token_list_
  /\ \A u \in Threads \ {t} : calls'[u] = calls[u]
  /\ UNCHANGED <<load_pc, load_args, lookup, stm_pc, add_str, add_id, split_input, split_res>>
  /\ UNCHANGED <<bbpe_tokenizer_, padding_length_, kernel_vars, bpe_vars, re_vars>>

\* thread t enters Tokenize: WhiteSpaceClean, the early return for an empty
\* input, and the BOS id
TokenizeEnter(t) ==
  /\ calls[t].pc = "idle"
  /\ \E args \in ConcArguments :
       \E cleaned \in {WhiteSpaceClean(args[1])} :
         calls' = [calls EXCEPT ![t] =
           IF IsEmptyUString(cleaned)
             THEN [NoCall EXCEPT !.pc = "done", !.input = args[1], !.max_len = args[2],
                                 !.with_offsets = args[3], !.cleaned = cleaned]
           ELSE [NoCall EXCEPT !.pc = "parse", !.input = args[1], !.max_len = args[2],
                               !.with_offsets = args[3], !.cleaned = cleaned,
                               !.res = BosIds(ThisVocabData)]]
  /\ ConcFrame(t, GetEncodingLeaves(ThisVocabData, StartOfText))

\* "Convert to lowercase" and "Parse input"
TokenizeParse(t) ==
  /\ calls[t].pc = "parse"
  /\ calls' = [calls EXCEPT ![t].segs = ParseInput(ThisVocabData, calls[t].cleaned),
                            ![t].pc = "segment"]
  /\ ConcFrame(t, ThisVocabData)

\* the head of the segment loop and the part of its body before the while
\* loop
TokenizeSegment(t) ==
  /\ calls[t].pc = "segment"
  /\ calls' = [calls EXCEPT ![t] =
       IF calls[t].segs = <<>> \/ ResFull(calls[t].res, calls[t].max_len)
         THEN [@ EXCEPT !.pc = "eos"]
       ELSE IF Head(calls[t].segs)[2] # -1
         THEN [@ EXCEPT !.res = Append(@, Head(calls[t].segs)[2]), !.segs = Tail(@)]
       ELSE [@ EXCEPT !.pc = "token", !.m_text = Head(calls[t].segs)[1], !.segs = Tail(@),
                      !.offset = 0,
                      !.offset_mapping = IF calls[t].with_offsets THEN <<<<0, 0>>>> ELSE <<>>]]
  /\ ConcFrame(t, ThisVocabData)

\* one pass of the while loop: its exit, with the end of the segment loop's
\* body, or its body for the next pre-token
TokenizeToken(t) ==
  /\ calls[t].pc = "token"
  /\ \E next \in {GetNextToken(calls[t].m_text)}, st \in {[res |-> calls[t].res, offset |-> calls[t].offset,
                                                         offset_mapping |-> calls[t].offset_mapping]} :
       IF ResFull(calls[t].res, calls[t].max_len) \/ ~next.b
         THEN /\ calls' = [calls EXCEPT
                             ![t].offset_map = CloseSegment(st, @, calls[t].with_offsets).offset_map,
                             ![t].pc = "segment"]
              /\ ConcFrame(t, ThisVocabData)
       ELSE /\ \E added \in {AddToken(ThisVocabData, ToUTF8(next.tok), st,
                                       calls[t].max_len, calls[t].with_offsets)} :
                 calls' = [calls EXCEPT ![t].res = added.res, ![t].offset = added.offset,
                                        ![t].offset_mapping = added.offset_mapping,
                                        ![t].m_text = next.m_text]
            /\ ConcFrame(t, AddTokenLeaves(ThisVocabData, ToUTF8(next.tok)))

\* "Add EOS token to result" and the return
TokenizeEos(t) ==
  /\ calls[t].pc = "eos"
  /\ calls' = [calls EXCEPT ![t].res = AppendEos(ThisVocabData, [res |-> @]).res,
                            ![t].pc = "done"]
  /\ ConcFrame(t, GetEncodingLeaves(ThisVocabData, EndOfText))

\* the caller takes the result
TokenizeReturn(t) ==
  /\ calls[t].pc = "done"
  /\ calls' = [calls EXCEPT ![t] = NoCall]
  /\ ConcFrame(t, ThisVocabData)

ConcNext ==
  \/ \E t \in Threads :
       \/ TokenizeEnter(t)
       \/ TokenizeParse(t)
       \/ TokenizeSegment(t)
       \/ TokenizeToken(t)
       \/ TokenizeEos(t)
       \/ TokenizeReturn(t)
  \/ GetEncodingCall
  \/ TokenToIDCall
  \/ IdToTokenCall

SpecConc == ConcInit /\ [][ConcNext]_vars

(***************************************************************************)
(* Properties of Tokenize (specification Spec).                           *)
(***************************************************************************)
\* the code points of the string handed to the last Tokenize call
TokenizeInput == FromUTF8(str_input[1])

\* what Tokenize returns for the same string when nothing is cut off
Untruncated == Tokenize(VocabData, TokenizeInput, INT64_MAX, FALSE, <<>>).res

\* the ids of a result between its first and its last
Content(r) == SubSeq(r, 2, Len(r) - 1)

OnlyWhitespace(str) == \A i \in 1..Len(str) : IsUnicodeSpace(str[i])

\* C1: Tokenize of an input made only of whitespace code points that is not
\* exactly one plain space returns no id at all, and Tokenize of exactly one
\* plain space returns at least BOS and EOS.
C1_WhitespaceOnlyIsEmpty ==
  pc = "tokenized" =>
    /\ (OnlyWhitespace(TokenizeInput) /\ TokenizeInput # <<32>>) => res = <<>>
    /\ TokenizeInput = <<32>> => Len(res) >= 2

\* C2: for max_length >= 1 Tokenize returns at most max_length + 1 ids, and
\* when the untruncated tokenization has more than max_length - 1 content ids
\* the result is BOS, the first max_length - 1 content ids in order, EOS.
C2_TruncationBound ==
  (pc = "tokenized" /\ max_length >= 1) =>
    /\ Len(res) - 1 <= max_length
    /\ Len(Content(Untruncated)) > max_length - 1 =>
         res = BosIds(VocabData) \o Take(Content(Untruncated), max_length - 1)
                 \o EosIds(VocabData)

\* a call with max_length 2 that cut off an input with three content ids
C2_Truncated ==
  /\ pc = "tokenized"
  /\ max_length = 2
  /\ Len(Content(Untruncated)) = 3
  /\ Len(res) = 3


\* C7: every non-empty result of Tokenize starts with the BOS id and ends with
\* the EOS id, truncated or not; the only other result is the empty sequence.
C7_BosFirstEosLast ==
  pc = "tokenized" =>
    \/ res = <<>>
    \/ /\ Len(res) >= 2
       /\ res[1] = VocabData.vocab_map_[StartOfText]
       /\ res[Len(res)] = VocabData.vocab_map_[EndOfText]

\* a call with max_length 1 whose input has content ids: nothing but BOS and
\* EOS is left of it
C7_CutToBosEos ==
  /\ pc = "tokenized"
  /\ max_length = 1
  /\ Len(Untruncated) > 2
  /\ Len(res) = 2

\* C5: when offsets are requested, Tokenize records as many (start, end)
\* pairs for an input as it returns ids for it.
C5_OnePairPerId ==
  (pc = "tokenized" /\ compute_offset_mapping) =>
    Len(Flatten(offset_map)) = Len(res)

\* the segments of the cleaned input split on the special tokens as the caller
\* wrote it, every segment converted to lowercase afterwards
SplitThenLowercase(vd, cleaned) ==
  [k \in DOMAIN SplitBySpecialTokens(vd, cleaned) |->
     <<Lowercase(SplitBySpecialTokens(vd, cleaned)[k][1]),
       SplitBySpecialTokens(vd, cleaned)[k][2]>>]

\* the tags of a sequence of segments with the lengths of their substrings
Tags(segs) == [k \in DOMAIN segs |-> <<Len(segs[k][1]), segs[k][2]>>]

\* C10: a segment is tagged as a special token exactly when the input as the
\* caller wrote it, before lowercasing, holds the token's exact string there,
\* and the result is BOS, the ids of the tagged segments and the ids of the
\* literal segments between them, EOS.
C10_SpecialTokensOfOriginalInput ==
  (pc = "tokenized" /\ ~IsEmptyUString(WhiteSpaceClean(TokenizeInput))) =>
    /\ Tags(ParseInput(VocabData, WhiteSpaceClean(TokenizeInput)))
         = Tags(SplitBySpecialTokens(VocabData, WhiteSpaceClean(TokenizeInput)))
    /\ res = AppendEos(VocabData,
               TokenizeSegments(VocabData,
                 SplitThenLowercase(VocabData, WhiteSpaceClean(TokenizeInput)),
                 [res |-> BosIds(VocabData), offset_map |-> <<>>],
                 max_length, FALSE)).res

\* the content tokens of a result with their pairs: walks the segments as
\* Tokenize does, a special-token segment has one id and no pair, a literal
\* segment has one offset mapping whose pairs but the first and the last
\* belong to its ids; base is the position of the segment in the whole input
RECURSIVE ContentTokens(_, _, _, _)
ContentTokens(segs, ids, om, base) ==
  IF segs = <<>> \/ ids = <<>> THEN <<>>
  ELSE IF Head(segs)[2] # -1
    THEN ContentTokens(Tail(segs), Tail(ids), om, base + Len(Head(segs)[1]))
  ELSE IF om = <<>> THEN <<>>
  ELSE LET n == Len(Head(om)) - 2
       IN [k \in 1..n |-> [id |-> ids[k], start |-> Head(om)[k + 1][1],
                           end |-> Head(om)[k + 1][2], seg_begin |-> base,
                           seg_end |-> base + Len(Head(segs)[1])]]
          \o ContentTokens(Tail(segs), Drop(ids, n), Tail(om),
                           base + Len(Head(segs)[1]))

\* whether id is the id of exactly one vocabulary string and not the id
\* GetEncoding falls back to
KnownId(vd, id) ==
  /\ id # vd.unk_id_
  /\ \E t \in DOMAIN vd.vocab_map_ : vd.vocab_map_[t] = id

\* the characters a token id stands for: its string without "</w>"
TokenText(vd, id) ==
  LET str == CHOOSE t \in DOMAIN vd.vocab_map_ : vd.vocab_map_[t] = id
  IN IF Len(str) >= 4 /\ MatchesAt(str, Len(str) - 3, EndOfWord)
     THEN Take(str, Len(str) - 4) ELSE str

\* the input of the last Tokenize call after WhiteSpaceClean and lowercasing
NormalizedInput == Lowercase(WhiteSpaceClean(TokenizeInput))

\* the content tokens of the last Tokenize call
LastContentTokens ==
  ContentTokens(ParseInput(VocabData, WhiteSpaceClean(TokenizeInput)),
                Content(res), offset_map, 0)

\* C24: every (start, end) pair recorded for a content token gives the
\* position of the token's characters in the whole normalized input: the
\* characters lie in the token's own segment, also when the segment comes after
\* a special token, they are the characters of the token, and end - start is
\* their number.
C24_OffsetsInWholeInput ==
  (pc = "tokenized" /\ compute_offset_mapping) =>
    \A k \in DOMAIN LastContentTokens :
       LET tok == LastContentTokens[k]
       IN /\ tok.seg_begin <= tok.start
          /\ tok.start < tok.end
          /\ tok.end <= tok.seg_end
          /\ KnownId(VocabData, tok.id) =>
               SubSeq(NormalizedInput, tok.start + 1, tok.end) = TokenText(VocabData, tok.id)

(***************************************************************************)
(* Properties of Compute (specification Spec).                            *)
(***************************************************************************)
\* what Tokenize returns for every string of the batch when nothing is cut off
BatchUntruncated ==
  [i \in DOMAIN str_input |->
     Tokenize(VocabData, FromUTF8(str_input[i]), INT64_MAX, FALSE, <<>>).res]

\* the length of the longest sequence of rs
LongestOf(rs) ==
  IF rs = <<>> THEN 0
  ELSE CHOOSE n \in {Len(rs[i]) : i \in DOMAIN rs} : \A i \in DOMAIN rs : Len(rs[i]) <= n

\* row i of a tensor whose rows have n elements
TensorRow(t, i, n) == SubSeq(t.data, (i - 1) * n + 1, i * n)

\* the ids r followed by pad up to n elements
PaddedTo(r, n, pad) == [j \in 1..n |-> IF j <= Len(r) THEN r[j] ELSE pad]

\* C3: with a fixed padding length N > 0, Compute writes exactly N token ids,
\* and exactly N mask entries when the mask is requested, for every batch
\* element: batch size times N entries, never more than the tensor holds.
C3_FixedPaddingWritesN ==
  (pc \in {"computed", "crashed"} /\ padding_length_ > 0) =>
    /\ token.size = Len(str_input) * padding_length_
    /\ token.written = Len(str_input) * padding_length_
    /\ mask.present => /\ mask.size = Len(str_input) * padding_length_
                       /\ mask.written = Len(str_input) * padding_length_

\* C4: with padding length -1 every batch element gets a row as long as the
\* longest Tokenize result of the batch, holding the element's ids followed by
\* the EOS id, and the mask row holds 1 for every id and 0 for every pad.
C4_PadToLongest ==
  (pc = "computed" /\ padding_length_ = -1) =>
    /\ max_length = LongestOf(BatchUntruncated)
    /\ token.size = Len(str_input) * max_length
    /\ ~Overflown(token)
    /\ \A i \in DOMAIN str_input :
         TensorRow(token, i, max_length)
           = PaddedTo(BatchUntruncated[i], max_length, VocabData.vocab_map_[EndOfText])
    /\ mask.present =>
         /\ mask.size = Len(str_input) * max_length
         /\ ~Overflown(mask)
         /\ \A i \in DOMAIN str_input :
              TensorRow(mask, i, max_length)
                = PaddedTo([j \in DOMAIN BatchUntruncated[i] |-> 1], max_length, 0)

\* a batch of two whose first element is shorter than the second, with a mask
C4_ShorterFirst ==
  /\ pc = "computed"
  /\ padding_length_ = -1
  /\ Len(str_input) = 2
  /\ Len(tokenize_results[1]) >= 2
  /\ Len(tokenize_results[1]) < Len(tokenize_results[2])
  /\ mask.present

\* the pairs Tokenize records for element i of the batch on its own
ElementPairs(i) ==
  Flatten(Tokenize(VocabData, FromUTF8(str_input[i]), MaxLengthArg, TRUE, <<>>).offset_map)

\* pair j of row i of the offset tensor
OffsetPair(i, j) ==
  <<offset.data[((i - 1) * max_length + j - 1) * 2 + 1],
    offset.data[((i - 1) * max_length + j - 1) * 2 + 2]>>

\* C6: in the offset tensor every batch element occupies max_length pairs:
\* pair j of element i is the offset of token j of element i, and the pairs at
\* padded positions are (0,0).
C6_OffsetRows ==
  (pc = "computed" /\ offset.present) =>
    /\ offset.size = Len(str_input) * max_length * 2
    /\ \A i \in DOMAIN str_input : \A j \in 1..max_length :
         OffsetPair(i, j) = IF j <= Len(ElementPairs(i)) THEN ElementPairs(i)[j]
                            ELSE <<0, 0>>


(***************************************************************************)
(* Properties of bpe (specification SpecBpe).                             *)
(***************************************************************************)
\* whether the ids at positions p and p + 1 of v are a pair of the merge table
PairPresent(v, p) == <<v[p][1], v[p + 1][1]>> \in DOMAIN VocabData.bpe_map_

\* the rank of that pair
RankAt(v, p) == VocabData.bpe_map_[<<v[p][1], v[p + 1][1]>>].value

\* C8: when bpe returns, no two adjacent ids of the list are a pair of the
\* merge table, and bpe run on the list it left changes neither ids nor
\* lengths.
C8_BpeFixpoint ==
  bpe_pc = "done" =>
    /\ \A p \in 1..(Len(vals) - 1) : ~PairPresent(vals, p)
    /\ vals = bpe(VocabData, vals0)
    /\ bpe(VocabData, vals) = vals

\* bpe returned after it merged more than once and left more than one id
C8_ReturnedAfterMerges ==
  /\ bpe_pc = "done"
  /\ merges_done >= 2
  /\ Len(vals) >= 2

\* C9: the pair a scan chooses has the lowest rank of all adjacent pairs of
\* the merge table and is the leftmost of that rank; with (A,B) of lower rank
\* than (B,C) the list [A,B,C] is [AB,C] after the first merge.
C9_LowestRankLeftmost ==
  /\ bpe_pc = "merge" =>
       /\ pos_it < Len(vals)
       /\ PairPresent(vals, pos_it)
       /\ <<ori_id1, ori_id2>> = <<vals[pos_it][1], vals[pos_it + 1][1]>>
       /\ aim_id = VocabData.bpe_map_[<<ori_id1, ori_id2>>].id
       /\ \A q \in 1..(Len(vals) - 1) :
            PairPresent(vals, q) =>
              \/ RankAt(vals, q) > RankAt(vals, pos_it)
              \/ RankAt(vals, q) = RankAt(vals, pos_it) /\ q >= pos_it
  /\ ( /\ merges_done = 1
       /\ Len(vals0) = 3
       /\ PairPresent(vals0, 1)
       /\ PairPresent(vals0, 2)
       /\ RankAt(vals0, 1) < RankAt(vals0, 2) ) =>
       vals = << <<VocabData.bpe_map_[<<vals0[1][1], vals0[2][1]>>].id,
                   vals0[1][2] + vals0[2][2]>>, vals0[3] >>

\* a scan chose between two positions that hold the same pair
C9_TieChosen ==
  /\ bpe_pc = "merge"
  /\ Len(vals) = 4
  /\ pos_it = 1
  /\ vals[3][1] = vals[1][1]
  /\ vals[4][1] = vals[2][1]

\* the first merge of [A,B,C] when (A,B) has a lower rank than (B,C)
C9_FirstMergeOfThree ==
  /\ merges_done = 1
  /\ Len(vals0) = 3
  /\ PairPresent(vals0, 1)
  /\ PairPresent(vals0, 2)
  /\ RankAt(vals0, 1) < RankAt(vals0, 2)


\* the reference BPE: the positions of v that hold a pair of the merge table
MergeablePositions(v) == {p \in 1..(Len(v) - 1) : PairPresent(v, p)}

\* a position whose pair has the lowest rank
LowestRankPosition(v) ==
  CHOOSE p \in MergeablePositions(v) :
    \A q \in MergeablePositions(v) : RankAt(v, p) <= RankAt(v, q)

\* every occurrence of the pair (id1, id2) that does not overlap an earlier
\* one merged into aim, from left to right
RECURSIVE MergeAllOccurrences(_, _, _, _)
MergeAllOccurrences(v, id1, id2, aim) ==
  IF Len(v) < 2 THEN v
  ELSE IF v[1][1] = id1 /\ v[2][1] = id2
    THEN <<<<aim, v[1][2] + v[2][2]>>>> \o MergeAllOccurrences(Drop(v, 2), id1, id2, aim)
  ELSE <<v[1]>> \o MergeAllOccurrences(Tail(v), id1, id2, aim)

\* repeated until no pair is mergeable
RECURSIVE ReferenceBpe(_)
ReferenceBpe(v) ==
  IF MergeablePositions(v) = {} THEN v
  ELSE LET p == LowestRankPosition(v)
       IN ReferenceBpe(MergeAllOccurrences(v, v[p][1], v[p + 1][1],
                         VocabData.bpe_map_[<<v[p][1], v[p + 1][1]>>].id))

\* C23: bpe returns the ids and lengths of the reference BPE, which repeats,
\* until no pair is mergeable: take the adjacent pair of lowest rank and merge
\* all its non-overlapping occurrences from left to right.
C23_BpeIsReferenceBpe ==
  bpe_pc = "done" => vals = ReferenceBpe(vals0)

\* bpe returned two merged elements for a list that held the same mergeable
\* pair twice: the second was merged by the fold loop
C23_RepeatFolded ==
  /\ bpe_pc = "done"
  /\ Len(vals0) = 4
  /\ PairPresent(vals0, 1)
  /\ vals0[3][1] = vals0[1][1]
  /\ vals0[4][1] = vals0[2][1]
  /\ vals0[1][1] # vals0[2][1]
  /\ Len(vals) = 2
  /\ merges_done = 2

\* the sum of the length fields of v
RECURSIVE LengthSum(_)
LengthSum(v) == IF v = <<>> THEN 0 ELSE v[1][2] + LengthSum(Tail(v))

\* C26: the sum of the length fields is the same at entry, after every merge
\* and on return; an element a merge makes has the sum of the lengths of the
\* two elements it replaces, which are the only ones the merge touches; a
\* list of fewer than 2 elements is returned as it was.
C26_LengthSumKept ==
  /\ [](LengthSum(vals) = LengthSum(vals0))
  /\ []((bpe_pc = "done" /\ Len(vals0) < 2) => vals = vals0)
  /\ [][vals' # vals =>
          \E p \in 1..(Len(vals) - 1) :
             /\ Len(vals') = Len(vals) - 1
             /\ vals'[p][2] = vals[p][2] + vals[p + 1][2]
             /\ SubSeq(vals', 1, p - 1) = SubSeq(vals, 1, p - 1)
             /\ Drop(vals', p) = Drop(vals, p + 1)]_vars

\* bpe returned one element of length 4 for three elements of lengths 1, 2, 1
C26_UnequalLengthsMerged ==
  /\ bpe_pc = "done"
  /\ Len(vals0) = 3
  /\ <<vals0[1][2], vals0[2][2], vals0[3][2]>> = <<2, 1, 1>>
  /\ Len(vals) = 1
  /\ vals[1][2] = 4

\* C27: bpe returns for every list; a pass of the while loop that does not
\* leave it removes an element, so the list is shorter by one for every merge
\* made, a list of n elements sees at most n - 1 merges, and pos_it is never
\* past the end of the list.
C27_BpeTerminates ==
  /\ <>(bpe_pc = "done")
  /\ [](/\ Len(vals) = Len(vals0) - merges_done
        /\ merges_done <= Max(Len(vals0) - 1, 0)
        /\ pos_it \in 1..(Len(vals) + 1)
        /\ bpe_pc = "merge" => pos_it < Len(vals)
        /\ bpe_pc = "fold" => merges_done >= 1)
  /\ [][(bpe_pc = "fold" /\ bpe_pc' = "scan") => Len(vals) < Len(vals0)]_vars

\* bpe returned one element for three: n - 1 merges
C27_AllMerged ==
  /\ bpe_pc = "done"
  /\ Len(vals0) = 3
  /\ Len(vals) = 1
  /\ merges_done = 2

(***************************************************************************)
(* Properties of SpecialTokenMap (specification SpecTokens).              *)
(***************************************************************************)
\* the 1-based positions of the occurrences of pat in s found left to right
\* from position p, none overlapping the one before
RECURSIVE Occurrences(_, _, _)
Occurrences(s, p, pat) ==
  IF p > Len(s) \/ ~(\E q \in p..Len(s) : MatchesAt(s, q, pat)) THEN {}
  ELSE {CHOOSE q \in p..Len(s) : MatchesAt(s, q, pat) /\ \A r \in p..(q - 1) : ~MatchesAt(s, r, pat)}
       \cup Occurrences(s, (CHOOSE q \in p..Len(s) :
                              MatchesAt(s, q, pat) /\ \A r \in p..(q - 1) : ~MatchesAt(s, r, pat))
                           + Len(pat), pat)

\* the 1-based position in the input at which segment k of segs starts
SegStart(segs, k) == 1 + Len(Flatten([j \in 1..(k - 1) |-> segs[j][1]]))

\* whether s holds pat somewhere
Holds(s, pat) == \E q \in 1..Len(s) : MatchesAt(s, q, pat)

\* C11: special tokens are resolved in registration order: every occurrence
\* of the first registered token, found left to right, is a segment tagged
\* with its id, no untagged segment is left holding a registered token, and
\* with "x" registered before "xx" the input "xx" gives two segments tagged
\* with the id of "x".
C11_RegistrationOrder ==
  (stm_pc = "split" /\ token_list_ # <<>>) =>
    /\ \A p \in Occurrences(split_input, 1, token_list_[1].str) :
         \E k \in DOMAIN split_res :
            /\ SegStart(split_res, k) = p
            /\ split_res[k] = <<token_list_[1].str, token_list_[1].id>>
    /\ \A k \in DOMAIN split_res :
         split_res[k][2] = -1 =>
           \A j \in DOMAIN token_list_ : ~Holds(split_res[k][1], token_list_[j].str)
    /\ ( /\ Len(token_list_) >= 2
         /\ token_list_[1].str = <<120>>
         /\ token_list_[2].str = <<120, 120>>
         /\ split_input = <<120, 120>> ) =>
         split_res = << <<(<<120>>), token_list_[1].id>>, <<(<<120>>), token_list_[1].id>> >>

\* "x" registered with one id, then "xx" with another, and "xx" split
C11_OverlappingTokens ==
  /\ stm_pc = "split"
  /\ Len(token_list_) >= 2
  /\ token_list_[1].str = <<120>>
  /\ token_list_[2].str = <<120, 120>>
  /\ token_list_[1].id # token_list_[2].id
  /\ split_input = <<120, 120>>

\* C12: the substrings of the segments SplitBySpecialTokens returns,
\* concatenated in order, are the input, and every segment is tagged -1 or
\* with the id of a registered token.
C12_SegmentsCoverInput ==
  stm_pc = "split" =>
    /\ Flatten([k \in DOMAIN split_res |-> split_res[k][1]]) = split_input
    /\ \A k \in DOMAIN split_res :
         \/ split_res[k][2] = -1
         \/ \E j \in DOMAIN token_list_ : split_res[k][2] = token_list_[j].id

\* a split that left text before, between and after two tagged segments
C12_TextAroundTokens ==
  /\ stm_pc = "split"
  /\ Len(split_res) >= 4
  /\ split_res[1][2] = -1
  /\ split_res[Len(split_res)][2] = -1
  /\ \E k \in DOMAIN split_res : split_res[k][2] # -1

\* the (string, id) entries of the map and of the list
MapEntries == {<<str, token_map_[str]>> : str \in DOMAIN token_map_}
ListEntries == {<<token_list_[k].str, token_list_[k].id>> : k \in DOMAIN token_list_}

\* C16: after any sequence of Add calls the set holds no empty string, the
\* map and the list hold the same entries, and every Add of the empty string
\* fails.
C16_NoEmptyTokenEver ==
  /\ <<>> \notin DOMAIN token_map_
  /\ \A k \in DOMAIN token_list_ : token_list_[k].str # <<>>
  /\ MapEntries = ListEntries
  /\ (stm_pc \in {"added", "threw"} /\ add_str = <<>>) => stm_pc = "threw"

\* C17: an Add of a registered string with another id throws and leaves the
\* set as it was; an Add with the same id returns, enters nothing and leaves
\* the order of the list as it was.
C17_DuplicateAdd ==
  [][ (AddCall /\ add_str' \in DOMAIN token_map_) =>
        /\ token_map_' = token_map_
        /\ token_list_' = token_list_
        /\ stm_pc' = IF token_map_[add_str'] = add_id' THEN "added" ELSE "threw" ]_vars

\* an Add of the first of two registered strings with another id threw
C17_ConflictingIdThrew ==
  /\ stm_pc = "threw"
  /\ Len(token_list_) >= 2
  /\ add_str = token_list_[1].str
  /\ add_id # token_list_[1].id

\* C25: after SplitBySpecialTokens returns, no segment tagged -1 holds the
\* string of a token of the list, every other segment is the string of a
\* token of the list tagged with that token's id, and, when the list is not
\* empty, no segment is the empty string.
C25_SegmentsWellFormed ==
  stm_pc = "split" =>
    \A k \in DOMAIN split_res :
       /\ split_res[k][2] = -1 =>
            \A j \in DOMAIN token_list_ : Occurrences(split_res[k][1], 1, token_list_[j].str) = {}
       /\ split_res[k][2] # -1 =>
            \E j \in DOMAIN token_list_ :
               split_res[k] = <<token_list_[j].str, token_list_[j].id>>
       /\ token_list_ # <<>> => split_res[k][1] # <<>>

\* "xy" and "x" are registered and "xxyx" is split into x, xy, x, each tagged
C25_TwoTokensThreeSegments ==
  /\ stm_pc = "split"
  /\ split_input = <<120, 120, 121, 120>>
  /\ Len(token_list_) = 2
  /\ token_list_[1].str = <<120, 121>>
  /\ token_list_[2].str = <<120>>
  /\ Len(split_res) = 3
  /\ \A k \in DOMAIN split_res : split_res[k][2] # -1

(***************************************************************************)
(* Properties of VocabData (specification SpecLoad).                       *)
(***************************************************************************)
\* the vocabulary JSON handed to the last Load
LoadedJson == LoadVocabs[load_args.vocab]

\* the lines of the merges text handed to the last Load
LoadedLines == GetLines(load_args.merges)

\* a Load has returned
Loaded == load_pc \in {"loaded", "looked"}

\* C13: after a Load whose unknown token is not in the vocabulary JSON the
\* unknown token has the next available id, and GetEncoding of a key that is
\* not in the vocabulary returns that id, which is not negative.
C13_AbsentKeyGetsUnknownId ==
  (Loaded /\ EndOfText \notin DOMAIN LoadedJson) =>
    /\ vocab_map_[EndOfText] = Cardinality(DOMAIN LoadedJson)
    /\ (load_pc = "looked" /\ lookup.op = "GetEncoding" /\ lookup.arg \notin DOMAIN vocab_map_) =>
         /\ lookup.ok
         /\ lookup.value = vocab_map_[EndOfText]
         /\ lookup.value >= 0

\* the lines of the last Load's merges text that are not blank and do not
\* start with '#'
RuleLines ==
  {RemoveCR(LoadedLines[k]) : k \in {j \in DOMAIN LoadedLines :
                                       /\ RemoveCR(LoadedLines[j]) # <<>>
                                       /\ RemoveCR(LoadedLines[j])[1] # 35}}

\* the words w1, w2 and w1+w2 of a line with a space
RuleWords(line) ==
  LET pos == Search(line, 1, <<32>>)
      w1 == SubSeq(line, 1, pos - 1)
      w2 == Drop(line, pos)
  IN <<w1, w2, w1 \o w2>>

\* the words of line are keys of the vocabulary JSON or the unknown token
WordsInVocabulary(line) ==
  \A i \in 1..3 : RuleWords(line)[i] \in DOMAIN LoadedJson \cup {EndOfText}

\* C14 as stated: a merges line whose w1, w2 or w1+w2 is not in the
\* vocabulary does not make Load fail, the word receives an id.
C14_AbsentWordIsAllocated ==
  (load_pc # "new" /\ \A line \in RuleLines : Search(line, 1, <<32>>) <= Len(line)) =>
    /\ load_pc # "failed"
    /\ Loaded => \A line \in RuleLines : \A i \in 1..3 : RuleWords(line)[i] \in DOMAIN vocab_map_

\* C14 (amended): while loading a merges line `w1 w2`, Load looks up the ids
\* of w1, w2 and w1+w2 in the vocabulary.  When one of them is absent the load
\* fails; a load that returns has recorded, for every rule line, the rule
\* (id(w1), id(w2)) -> id(w1+w2), and has allocated ids for nothing but the
\* unknown token and the special tokens.
C14_AbsentWordFailsLoad ==
  /\ (load_pc # "new" /\ \E line \in RuleLines : ~WordsInVocabulary(line)) => load_pc = "failed"
  /\ Loaded =>
       /\ DOMAIN vocab_map_ = DOMAIN LoadedJson \cup {StartOfText, EndOfText}
       /\ \A line \in RuleLines :
            /\ <<vocab_map_[RuleWords(line)[1]], vocab_map_[RuleWords(line)[2]]>> \in DOMAIN bpe_map_
            /\ bpe_map_[<<vocab_map_[RuleWords(line)[1]], vocab_map_[RuleWords(line)[2]]>>].id
                 = vocab_map_[RuleWords(line)[3]]

\* a Load failed on the line "a c" that follows the rule "a b": "ac" is not
\* in the vocabulary
C14_RuleThenAbsentWord ==
  /\ load_pc = "failed"
  /\ LoadedLines = << <<97, 32, 98>>, <<97, 32, 99>> >>

\* the k-th line of the last Load's merges text starts with '#'
CommentLine(k) == RemoveCR(LoadedLines[k]) # <<>> /\ RemoveCR(LoadedLines[k])[1] = 35

\* the rule of line is in bpe_map_
RuleRecorded(line) ==
  /\ Search(line, 1, <<32>>) <= Len(line)
  /\ \A i \in 1..3 : RuleWords(line)[i] \in DOMAIN vocab_map_
  /\ <<vocab_map_[RuleWords(line)[1]], vocab_map_[RuleWords(line)[2]]>> \in DOMAIN bpe_map_

\* C15: a line starting with '#' is skipped only when it is the first line
\* of the merges text; after a Load that returned, every later line starting
\* with '#' has been parsed as a merge rule.
C15_LaterCommentIsParsed ==
  Loaded => \A k \in DOMAIN LoadedLines :
              (k > 1 /\ CommentLine(k)) => RuleRecorded(RemoveCR(LoadedLines[k]))

\* C19: after a Load that returned (the ids of every vocabulary JSON of the
\* model are unique and not negative) no two tokens of vocab_map_ have the
\* same id, id2token_map_ has one slot per token and every write to it was
\* inside it, and IdToToken(TokenToID(t)) = t for every token t.
C19_IdsUniqueAndInverse ==
  Loaded =>
    /\ Cardinality({vocab_map_[t] : t \in DOMAIN vocab_map_}) = Cardinality(DOMAIN vocab_map_)
    /\ id2token_map_.size = Cardinality(DOMAIN vocab_map_)
    /\ ~Id2TokenOutOfBounds(vocab_map_)
    /\ \A t \in DOMAIN vocab_map_ :
         /\ TokenToID(ThisVocabData, t).ok
         /\ IdToToken(ThisVocabData, TokenToID(ThisVocabData, t).value) = [ok |-> TRUE, value |-> t]

\* the bytes that are their own placeholder
PrintableBytes == (33..126) \cup (161..172) \cup (174..255)

\* the code point of the placeholder character of byte b: b itself for the
\* printable bytes, and 256, 257, ... in byte order for the others
PlaceholderOf(b) ==
  IF b \in PrintableBytes THEN b
  ELSE 256 + Cardinality({c \in 0..(b - 1) : c \notin PrintableBytes})

\* C18: after a Load that returned, for every byte b, byte_encoder_[b] is an
\* id of the vocabulary, IdToToken of it is the placeholder character of b,
\* and no two bytes have the same id.
C18_ByteRoundTrip ==
  Loaded =>
    /\ \A b \in 0..255 :
         /\ byte_encoder_[b] \in {vocab_map_[t] : t \in DOMAIN vocab_map_}
         /\ IdToToken(ThisVocabData, byte_encoder_[b])
              = [ok |-> TRUE, value |-> EncodeUTF8Char(PlaceholderOf(b))]
    /\ Cardinality({byte_encoder_[b] : b \in 0..255}) = 256

(***************************************************************************)
(* Properties of TokenWithRegularExp (specification SpecRegex).            *)
(***************************************************************************)
\* C20: every GetNextToken call made while text remains returns a token that
\* is not empty, is a prefix of the text that remains and removes exactly
\* that prefix; the tokens returned so far followed by the text that remains
\* are the slice, there are at most as many tokens as the slice has
\* characters, and GetNextToken returns false exactly when no text remains.
C20_TokensCoverSlice ==
  /\ [](re_pc \in {"set", "token", "end"} =>
          /\ Flatten(re_tokens) \o text_left = re_input
          /\ Len(re_tokens) <= Len(re_input)
          /\ re_pc = "end" => text_left = <<>>)
  /\ [][GetNextTokenCall =>
          IF text_left = <<>>
            THEN re_pc' = "end" /\ re_tokens' = re_tokens /\ text_left' = <<>>
          ELSE /\ re_pc' = "token"
               /\ Len(re_tokens') = Len(re_tokens) + 1
               /\ re_tokens'[Len(re_tokens')] # <<>>
               /\ re_tokens'[Len(re_tokens')] \o text_left' = text_left]_vars

\* the slice "1  !" is used up: a digit, a separator run that leaves its
\* last space to the punctuation mark after it, and GetNextToken has
\* returned false
C20_SliceUsedUp ==
  /\ re_pc = "end"
  /\ re_input = <<49, 32, 32, 33>>
  /\ re_tokens = << <<49>>, <<32>>, <<32, 33>> >>

\* the length of the run of separator characters s starts with
SeparatorRun(s) ==
  CHOOSE n \in 0..Len(s) :
    /\ \A i \in 1..n : IsZ(s[i])
    /\ n = Len(s) \/ ~IsZ(s[n + 1])

\* the token GetNextTokenCall has just returned
ReturnedToken == re_tokens'[Len(re_tokens')]

\* C21: when the text that remains starts with a run of separators longer
\* than 1 that does not reach the end, the token is the run without its last
\* character and that separator is the first character of the text left for
\* the next token; a run of length 1 and a run that reaches the end are not
\* cut: the token is the run, or, for a single space before a letter, a
\* number or another non-separator, the space with what follows it.
C21_SeparatorRunCut ==
  [][(GetNextTokenCall /\ text_left # <<>> /\ IsZ(text_left[1])) =>
       /\ re_pc' = "token"
       /\ LET n == SeparatorRun(text_left)
          IN IF n > 1 /\ n # Len(text_left)
               THEN /\ ReturnedToken = Take(text_left, n - 1)
                    /\ text_left' = Drop(text_left, n - 1)
                    /\ IsZ(text_left'[1])
                    /\ ~IsZ(text_left'[2])
             ELSE /\ Take(ReturnedToken, n) = Take(text_left, n)
                  /\ (n = Len(text_left) \/ text_left[1] # 32) => ReturnedToken = Take(text_left, n)
                  /\ ReturnedToken \o text_left' = text_left]_vars

\* of the slice "  1" the first space has been returned and " 1" is left
C21_RunBeforeDigit ==
  /\ re_pc = "token"
  /\ re_input = <<32, 32, 49>>
  /\ re_tokens = << <<32>> >>
  /\ text_left = <<32, 49>>

(***************************************************************************)
(* Properties of concurrent Tokenize calls (specification SpecConc).       *)
(***************************************************************************)
\* what the call of thread t returns when it runs alone on the loaded tables
RunAlone(t) ==
  Tokenize(LoadedVocabData[bbpe_tokenizer_], calls[t].input, calls[t].max_len,
           calls[t].with_offsets, <<>>)

\* C22: no step of a Tokenize call and no GetEncoding, TokenToID or IdToToken
\* changes the vocabulary, the merge table, the byte encoder or the
\* special-token set, and under every interleaving of the calls of two
\* threads each call returns the ids and the offset mappings it returns when
\* it runs alone.
C22_SharedTablesReadOnly ==
  /\ TablesAre(LoadedTables(bbpe_tokenizer_))
  /\ \A t \in Threads :
       calls[t].pc = "done" =>
         /\ calls[t].res = RunAlone(t).res
         /\ calls[t].offset_map = RunAlone(t).offset_map

\* thread 1 has returned from "a<|endoftext|>b" while thread 2 is inside the
\* while loop of "ab a" with an id added
C22_OneDoneOneRunning ==
  /\ calls[1].pc = "done"
  /\ calls[1].input = <<97>> \o EndOfText \o <<98>>
  /\ Len(calls[1].res) = 5
  /\ calls[2].pc = "token"
  /\ calls[2].input = <<97, 98, 32, 97>>
  /\ Len(calls[2].res) = 2

=============================================================================
